---- MODULE Spec2Model ----
(***************************************************************************)
(* Model of the provisioning service of maas-frontend (src/app.py):        *)
(* the submit handler provision_machines, the explicit-list resolver       *)
(* resolve_machine_identifiers, the background execution flow              *)
(* deploy_machines and the job store provisioning_jobs.                    *)
(*                                                                         *)
(* The service runs on one asyncio event loop, so code between two awaits  *)
(* is one atomic step.  Every action below is the code from one suspension *)
(* point (an await on the fleet controller) to the next.                   *)
(*                                                                         *)
(* Python values: None and the empty list are both modelled as <<>> and    *)
(* None and the empty string as "" wherever the code only tests their      *)
(* truthiness; an optional value that the code sets once is a sequence of  *)
(* length 0 or 1.                                                          *)
(***************************************************************************)
EXTENDS Integers, Sequences, FiniteSets, TLC

VARIABLES
    provisioning_jobs,  \* app.py:38   job id -> job record
    job_id_counter,     \* app.py:39
    requests,           \* submit requests: in flight at an await, or answered
    tasks,              \* the scheduled runs of deploy_machines: position and locals
    deploy_calls,       \* per run, the deploy operations issued to the fleet controller
    clock,              \* reading of datetime.now()
    evaluation          \* one call of a side-effect-free function: arguments and result

vars == <<provisioning_jobs, job_id_counter, requests, tasks, deploy_calls, clock,
          evaluation>>

-----------------------------------------------------------------------------
(* Bounds of the model *)

\* submit requests issued in the specification of one request in full detail
MaxRequests == 1
\* submit requests issued in the specification of interleaved requests
MaxConcRequests == 2
\* longest explicit machine list a request carries
MaxList == 2
\* largest count a request asks for
MaxCount == 2

-----------------------------------------------------------------------------
(* Sequence helpers (Python list operations) *)

Range(s) == {s[i] : i \in 1..Len(s)}

\* variant of Take: the last n elements of s, s[-n:]
Take_Last(s, n) ==
    SubSeq(s, IF n < Len(s) THEN Len(s) - n + 1 ELSE 1, Len(s))

\* s[:n]; a negative n counts from the end of s
Take(s, n) ==
    LET stop == IF n < 0 THEN (IF Len(s) + n < 0 THEN 0 ELSE Len(s) + n)
                ELSE IF n < Len(s) THEN n ELSE Len(s)
    IN  SubSeq(s, 1, stop)

\* [x for x in s if Test(x)]
Filter(s, Test(_)) == SelectSeq(s, Test)

\* number of entries of s satisfying Test
Count(s, Test(_)) == Len(SelectSeq(s, Test))

\* all sequences over S of length 0..n
SeqsUpTo(S, n) == UNION {[1..k -> S] : k \in 0..n}

-----------------------------------------------------------------------------
(* The fleet controller's machines.  A snapshot is what maas_api('machines/')*)
(* returns: a list of machine records in the controller's order.           *)

MachineIds == <<"m1", "m2", "m3">>

\* m2 carries a hostname equal to m1's system id
HostnameOf(id) == CASE id = "m1" -> "h1" [] id = "m2" -> "m1" [] OTHER -> "h3"

PoolOf(id) == IF id = "m3" THEN "lab" ELSE "default"

TagsOf(id) == CASE id = "m1" -> <<"gpu", "ssd">> [] id = "m2" -> <<"gpu">> [] OTHER -> <<"ssd">>

\* memory in MB; m3 reports "null" (JSON null: the controller has no figure)
MemoryOf(id) == IF id = "m3" THEN "null" ELSE "4096"

MachineRecord(id, st) ==
    [system_id |-> id, hostname |-> HostnameOf(id), status_name |-> st,
     pool |-> PoolOf(id), tag_names |-> TagsOf(id), memory |-> MemoryOf(id)]

StatusNames == {"Ready", "Deployed"}

RECURSIVE MkSnapshot(_, _)
MkSnapshot(st, i) ==
    IF i > Len(MachineIds) THEN <<>>
    ELSE LET id == MachineIds[i]
         IN  (IF st[id] = "absent" THEN <<>> ELSE <<MachineRecord(id, st[id])>>)
             \o MkSnapshot(st, i + 1)

Snapshots ==
    {MkSnapshot(st, 1) : st \in [Range(MachineIds) -> StatusNames \cup {"absent"}]}

\* the snapshots of the concurrent specification: the three machines are
\* listed, m2 and m3 are Ready
ConcSnapshots ==
    {s \in Snapshots :
        /\ Len(s) = Len(MachineIds)
        /\ \A id \in {"m2", "m3"} :
            \E i \in 1..Len(s) : s[i].system_id = id /\ s[i].status_name = "Ready"}

-----------------------------------------------------------------------------
(* Submit requests (MachineProvisionRequest, app.py:42-50) *)

Tokens == {"m1", "m2", "m3", "h1", "zz"}

TagLists == {<<>>, <<"gpu">>, <<"gpu", "ssd">>}

Snippet == "- apt-get update"

Requests ==
    [machines : SeqsUpTo(Tokens, MaxList),
     tags : TagLists,
     pool : {"", "default", "lab"},
     count : 0..MaxCount,
     auto_select : BOOLEAN,
     tag_match_mode : {"all", "any"},
     user_data : {"", Snippet},
     distro_series : {"jammy", "rocky-9"}]

\* the requests of the concurrent specification: an explicit list of two
\* machines, an explicit list naming an unknown machine, a request naming
\* neither machines nor tags, an explicit list with a user snippet, and an
\* auto-selection of one machine tagged "gpu" and "ssd" (m1 alone carries both)
ConcRequests ==
    {r \in Requests :
        /\ r.pool = "" /\ r.distro_series = "jammy" /\ r.tag_match_mode = "all"
        /\ \/ /\ ~r.auto_select /\ r.tags = <<>> /\ r.count = 0
              /\ r.user_data = ""
              /\ r.machines \in {<<"m1", "m2">>, <<"zz">>, <<>>}
           \/ /\ ~r.auto_select /\ r.tags = <<>> /\ r.count = 0
              /\ r.user_data = Snippet
              /\ r.machines = <<"m3", "m2">>
           \/ /\ r.auto_select /\ r.user_data = "" /\ r.tags = <<"gpu", "ssd">> /\ r.count = 1
              /\ r.machines = <<>>}

\* maas_config has no POOLS entry: app.py:676-679
configured_pools == <<"default">>

-----------------------------------------------------------------------------
(* resolve_machine_identifiers, app.py:539-607 *)

\* the dict built at 560-564: a later machine overwrites an earlier one that
\* has the same hostname
hostname_to_id(all_machines, h) ==
    LET idx == {i \in 1..Len(all_machines) : all_machines[i].hostname = h}
    IN  all_machines[CHOOSE i \in idx : \A k \in idx : k <= i].system_id

KnownIds(all_machines) == {all_machines[i].system_id : i \in 1..Len(all_machines)}

KnownHostnames(all_machines) == {all_machines[i].hostname : i \in 1..Len(all_machines)}

\* variant of ResolveLoop: the lists are built back to front
RECURSIVE ResolveLoop_Reversed(_, _, _)
ResolveLoop_Reversed(identifiers, all_machines, i) ==
    IF i > Len(identifiers) THEN [resolved_ids |-> <<>>, unresolved |-> <<>>]
    ELSE LET identifier == identifiers[i]
             rest == ResolveLoop_Reversed(identifiers, all_machines, i + 1)
         IN  IF identifier \in KnownIds(all_machines)
             THEN [rest EXCEPT !.resolved_ids = Append(@, identifier)]
             ELSE IF identifier \in KnownHostnames(all_machines)
             THEN [rest EXCEPT !.resolved_ids =
                                   Append(@, hostname_to_id(all_machines, identifier))]
             ELSE [rest EXCEPT !.unresolved = Append(@, identifier)]

\* the loop at 569-578: resolved_ids and unresolved
RECURSIVE ResolveLoop(_, _, _)
ResolveLoop(identifiers, all_machines, i) ==
    IF i > Len(identifiers) THEN [resolved_ids |-> <<>>, unresolved |-> <<>>]
    ELSE LET identifier == identifiers[i]
             rest == ResolveLoop(identifiers, all_machines, i + 1)
         IN  IF identifier \in KnownIds(all_machines)
             THEN [rest EXCEPT !.resolved_ids = <<identifier>> \o @]
             ELSE IF identifier \in KnownHostnames(all_machines)
             THEN [rest EXCEPT !.resolved_ids =
                                   <<hostname_to_id(all_machines, identifier)>> \o @]
             ELSE [rest EXCEPT !.unresolved = <<identifier>> \o @]

\* variant of resolve_machine_identifiers: the hostname is tried before the
\* system id
RECURSIVE resolve_hostname_first(_, _)
resolve_hostname_first(identifiers, all_machines) ==
    IF identifiers = <<>> THEN [resolved_ids |-> <<>>, unresolved |-> <<>>]
    ELSE LET identifier == Head(identifiers)
             rest == resolve_hostname_first(Tail(identifiers), all_machines)
         IN  IF identifier \in KnownHostnames(all_machines)
             THEN [rest EXCEPT !.resolved_ids =
                                   <<hostname_to_id(all_machines, identifier)>> \o @]
             ELSE IF identifier \in KnownIds(all_machines)
             THEN [rest EXCEPT !.resolved_ids = <<identifier>> \o @]
             ELSE [rest EXCEPT !.unresolved = <<identifier>> \o @]

\* 539-607: the lists the function builds for the identifiers
resolve_machine_identifiers(identifiers, all_machines) ==
    ResolveLoop(identifiers, all_machines, 1)

-----------------------------------------------------------------------------
(* Auto-selection, app.py:669-742 *)

InSeq(x, s) == \E i \in 1..Len(s) : s[i] = x

\* any(tag in machine_tags for tag in tags)
AnyTag(tags, machine) == \E i \in 1..Len(tags) : InSeq(tags[i], machine.tag_names)

\* variant of AllTags: the ALL mode applies no tag filter
AllTags_Unfiltered(tags, machine) == TRUE

\* all(tag in machine_tags for tag in tags)
AllTags(tags, machine) == \A i \in 1..Len(tags) : InSeq(tags[i], machine.tag_names)

\* variant of ready_machines: the allowed pools are not applied
ready_machines_AnyPool(req, all_machines) ==
    LET InRequestPool(m) == req.pool = "" \/ m.pool = req.pool
        Tagged(m) == IF req.tag_match_mode = "any" THEN AnyTag(req.tags, m)
                     ELSE AllTags(req.tags, m)
        IsReady(m) == m.status_name = "Ready"
    IN  Filter(Filter(Filter(all_machines, InRequestPool), Tagged), IsReady)

\* 674-709: pool filters, tag filter by match mode, Ready filter
ready_machines(req, all_machines) ==
    LET InConfigured(m) == InSeq(m.pool, configured_pools)
        InRequestPool(m) == req.pool = "" \/ m.pool = req.pool
        Tagged(m) == IF req.tag_match_mode = "any" THEN AnyTag(req.tags, m)
                     ELSE AllTags(req.tags, m)
        IsReady(m) == m.status_name = "Ready"
    IN  Filter(Filter(Filter(Filter(all_machines, InConfigured), InRequestPool),
                      Tagged), IsReady)

\* variant of SystemIds: the hostnames are listed
SystemIds_Hostnames(ms) == [i \in 1..Len(ms) |-> ms[i].hostname]

\* 742: [m['system_id'] for m in ms]
SystemIds(ms) == [i \in 1..Len(ms) |-> ms[i].system_id]

-----------------------------------------------------------------------------
(* provision_machines, app.py:609-821 *)

\* 616, 665, 669: the request is handled in auto-selection mode
AutoMode(req) ==
    req.auto_select \/ (Len(req.tags) > 0 /\ Len(req.machines) = 0)

\* 616-658: the error of the request's validation, "" when it passes
ValidationError(req) ==
    IF AutoMode(req)
    THEN IF Len(req.tags) = 0
         THEN "tags array is required for automatic machine selection"
         ELSE IF req.count = 0 \/ req.count < 1
         THEN "count is required and must be greater than 0 for automatic machine selection"
         ELSE ""
    ELSE IF Len(req.machines) = 0
         THEN "machines array is required when not using automatic selection"
         ELSE ""

\* variant of JobId: the identifier is made of the time alone
JobId_NoCounter(now, counter) == <<now, 0>>

\* 772: f"job-{int(time.time())}-{job_id_counter}"
JobId(now, counter) == <<now, counter>>

\* variant of NewJob: the record is created with status running
NewJob_Running(job_id, req, resource_validation, now) ==
    [id |-> job_id,
     status |-> "running",
     created_at |-> now,
     updated_at |-> now,
     completed_at |-> <<>>,
     error |-> "",
     machines |-> <<>>,
     total_machines |-> 0,
     successful_deployments |-> 0,
     failed_deployments |-> 0,
     results |-> <<>>,
     resource_validation |-> resource_validation,
     config |-> [distro_series |-> IF req.distro_series = "" THEN "jammy"
                                   ELSE req.distro_series,
                 user_data |-> req.user_data,
                 tags |-> req.tags,
                 pool |-> req.pool,
                 count |-> req.count,
                 auto_select |-> req.auto_select,
                 tag_match_mode |-> req.tag_match_mode]]

\* 775-795
NewJob(job_id, req, resource_validation, now) ==
    [id |-> job_id,
     status |-> "pending",
     created_at |-> now,
     updated_at |-> now,
     completed_at |-> <<>>,
     error |-> "",
     machines |-> <<>>,
     total_machines |-> 0,
     successful_deployments |-> 0,
     failed_deployments |-> 0,
     results |-> <<>>,
     resource_validation |-> resource_validation,
     config |-> [distro_series |-> IF req.distro_series = "" THEN "jammy"
                                   ELSE req.distro_series,
                 user_data |-> req.user_data,
                 tags |-> req.tags,
                 pool |-> req.pool,
                 count |-> req.count,
                 auto_select |-> req.auto_select,
                 tag_match_mode |-> req.tag_match_mode]]

\* 744-755
ResourceValidation(req, ready, selected) ==
    [auto_selected |-> TRUE,
     requested_count |-> req.count,
     available_count |-> Len(ready),
     selected_machines |-> Len(selected),
     selection_criteria |-> [tags |-> req.tags,
                             tag_match_mode |-> req.tag_match_mode,
                             pool |-> req.pool,
                             status |-> "Ready"]]

\* Python's order of str, on the names of the fleet
NameOrder == <<"h1", "h3", "m1", "m2", "m3">>

\* sorted(names) of a collection of distinct names
sorted(names) == LET In(x) == x \in names IN Filter(NameOrder, In)

\* variant of ResolutionError: the first unresolved token alone is reported
ResolutionError_FirstOnly(unresolved, all_machines) ==
    [status_code |-> 400,
     error |-> "Cannot resolve machine identifiers",
     unresolved |-> Take(unresolved, 1),
     available_hostnames |-> sorted(KnownHostnames(all_machines)),
     available_system_ids |-> sorted(KnownIds(all_machines))]

\* 580-592: the resolution error
ResolutionError(unresolved, all_machines) ==
    [status_code |-> 400,
     error |-> "Cannot resolve machine identifiers",
     unresolved |-> unresolved,
     available_hostnames |-> sorted(KnownHostnames(all_machines)),
     available_system_ids |-> sorted(KnownIds(all_machines))]

\* 714-739: the insufficient-resources error
InsufficientResources(req, ready) ==
    [status_code |-> 409,
     error |-> "Not enough resources to provision",
     requested_count |-> req.count,
     available_count |-> Len(ready),
     required_tags |-> req.tags,
     pool |-> IF req.pool = "" THEN "any configured pool" ELSE req.pool,
     available_machines |-> SystemIds(ready)]

\* 803-815
Accepted(job_id, selected_machines, resource_validation) ==
    [status_code |-> 200,
     job_id |-> job_id,
     status |-> "pending",
     machines_to_deploy |-> Len(selected_machines),
     auto_selection |-> resource_validation,
     selected_machines |-> IF resource_validation = <<>> THEN <<>>
                           ELSE selected_machines]

\* variant of Select: an auto-selection takes the candidates there are
Select_BestEffort(req, all_machines) ==
    IF ~AutoMode(req)
    THEN LET r == resolve_machine_identifiers(req.machines, all_machines)
         IN  IF r.unresolved # <<>>
             THEN [ok |-> FALSE, error |-> ResolutionError(r.unresolved, all_machines)]
             ELSE [ok |-> TRUE, selected_machines |-> r.resolved_ids,
                   resource_validation |-> <<>>]
    ELSE LET ready == ready_machines(req, all_machines)
             selected == SystemIds(Take(ready, req.count))
         IN  IF Len(ready) = 0
             THEN [ok |-> FALSE, error |-> InsufficientResources(req, ready)]
             ELSE [ok |-> TRUE, selected_machines |-> selected,
                   resource_validation |-> <<ResourceValidation(req, ready, selected)>>]

\* 661-769: what the request selects from the snapshot the controller returned:
\* the identifiers to deploy and the selection summary, or the error raised
Select(req, all_machines) ==
    IF ~AutoMode(req)
    THEN LET r == resolve_machine_identifiers(req.machines, all_machines)
         IN  IF r.unresolved # <<>>
             THEN [ok |-> FALSE, error |-> ResolutionError(r.unresolved, all_machines)]
             ELSE [ok |-> TRUE, selected_machines |-> r.resolved_ids,
                   resource_validation |-> <<>>]
    ELSE LET ready == ready_machines(req, all_machines)
             selected == SystemIds(Take(ready, req.count))
         IN  IF Len(ready) < req.count
             THEN [ok |-> FALSE, error |-> InsufficientResources(req, ready)]
             ELSE [ok |-> TRUE, selected_machines |-> selected,
                   resource_validation |-> <<ResourceValidation(req, ready, selected)>>]

\* variant of NextCounter: the identifier is allocated before the selection
NextCounter_Always(ok, counter) == counter + 1

\* 773: the counter is incremented once the selection has raised no error
NextCounter(ok, counter) == IF ok THEN counter + 1 ELSE counter

\* 800: background_tasks.add_task(deploy_machines, job_id, selected_machines, config)
NewTask(job_id, selected_machines) ==
    [job_id |-> job_id, pc |-> "scheduled", machine_ids |-> selected_machines,
     fetch |-> "", target_machines |-> <<>>, idx |-> 0]

\* 614-658: the request once the handler has run up to its first await (667
\* or 672); a request that fails validation is answered at once
Arrived(req) ==
    IF ValidationError(req) # ""
    THEN [pc |-> "answered", req |-> req,
          response |-> [status_code |-> 400, error |-> ValidationError(req)]]
    ELSE [pc |-> "awaiting", req |-> req, response |-> <<>>]

\* The request arrives; 614-658 run up to the first await (667 or 672).  A
\* request that fails validation is answered at once.
SubmitBegin(R, max) ==
    /\ Len(requests) < max
    /\ \E req \in R :
        /\ requests' = Append(requests, Arrived(req))
        /\ UNCHANGED <<provisioning_jobs, job_id_counter, tasks, deploy_calls, clock, evaluation>>

\* variant of StoreJob: the record is stored under its creation second alone
StoreJob_BySecond(store, job_id, job) == <<job_id[1], 0>> :> job @@ store

\* 797: provisioning_jobs[job_id] = job
StoreJob(store, job_id, job) == job_id :> job @@ store

\* The controller returns the machine list (554 or 672); the handler runs to
\* its end: 566-595 or 674-757, then either raises or creates the job (771-815).
SubmitResume(S) ==
    \E i \in 1..Len(requests) :
        /\ requests[i].pc = "awaiting"
        /\ \E all_machines \in S :
           LET req == requests[i].req
               sel == Select(req, all_machines)
               job_id == JobId(clock, job_id_counter)
           IN  IF ~sel.ok
               THEN /\ requests' = [requests EXCEPT ![i].pc = "answered",
                                                    ![i].response = sel.error]
                    /\ job_id_counter' = NextCounter(sel.ok, job_id_counter)
                    /\ UNCHANGED <<provisioning_jobs, tasks, deploy_calls>>
               ELSE /\ job_id_counter' = NextCounter(sel.ok, job_id_counter)
                    /\ provisioning_jobs' =
                           StoreJob(provisioning_jobs, job_id,
                                    NewJob(job_id, req, sel.resource_validation, clock))
                    /\ tasks' = Append(tasks, NewTask(job_id, sel.selected_machines))
                    /\ deploy_calls' = Append(deploy_calls, <<>>)
                    /\ requests' = [requests EXCEPT
                           ![i].pc = "answered",
                           ![i].response = Accepted(job_id, sel.selected_machines,
                                                    sel.resource_validation)]
        /\ UNCHANGED <<clock, evaluation>>

\* The controller call of the handler fails: maas_api raises (190-192), the
\* handler re-raises (597-598, 759-760, 817-818).
SubmitGatewayError ==
    \E i \in 1..Len(requests) :
        /\ requests[i].pc = "awaiting"
        /\ requests' = [requests EXCEPT
               ![i].pc = "answered",
               ![i].response = [status_code |-> 500, error |-> "MAAS API Error"]]
        /\ UNCHANGED <<provisioning_jobs, job_id_counter, tasks, deploy_calls, clock, evaluation>>

-----------------------------------------------------------------------------
(* deploy_machines, app.py:424-537 *)

\* 447-453
SkippedResult(machine) ==
    [machine_id |-> machine.system_id, hostname |-> machine.hostname,
     status |-> "skipped", reason |-> "Machine not in Ready state",
     current |-> machine.status_name]

\* 457-462
NotFoundResult(system_id) ==
    [machine_id |-> system_id, hostname |-> system_id,
     status |-> "failed", reason |-> "Machine not found"]

\* 487
OsType(distro_series) ==
    IF distro_series \in {"rocky-9", "rhel-9", "centos-9"} THEN "rocky" ELSE "ubuntu"

\* 503-511
DeployedResult(machine, config, now) ==
    [machine_id |-> machine.system_id, hostname |-> machine.hostname,
     status |-> "deployed", distro_series |-> config.distro_series,
     os_type |-> OsType(config.distro_series), deployed_at |-> now]

\* 517-522
FailedResult(machine, deploy_error) ==
    [machine_id |-> machine.system_id, hostname |-> machine.hostname,
     status |-> "failed", error |-> deploy_error]

\* 443: next((m for m in all_machines if m['system_id'] == system_id), None),
\* as a list of zero or one machine
FindMachine(all_machines, system_id) ==
    LET idx == {i \in 1..Len(all_machines) : all_machines[i].system_id = system_id}
    IN  IF idx = {} THEN <<>>
        ELSE <<all_machines[CHOOSE i \in idx : \A k \in idx : i <= k]>>

\* variant of ResolveTargets: the status test of 445 is missing, every machine
\* found is kept
RECURSIVE ResolveTargets_AnyStatus(_, _, _)
ResolveTargets_AnyStatus(machine_ids, all_machines, i) ==
    IF i > Len(machine_ids) THEN [results |-> <<>>, target_machines |-> <<>>]
    ELSE LET system_id == machine_ids[i]
             found == FindMachine(all_machines, system_id)
             rest == ResolveTargets_AnyStatus(machine_ids, all_machines, i + 1)
         IN  IF found # <<>>
             THEN [rest EXCEPT !.target_machines = <<found[1]>> \o @]
             ELSE [rest EXCEPT !.results = <<NotFoundResult(system_id)>> \o @]

\* 441-462: the results recorded for targets that are missing or not Ready, and
\* the machines kept for deployment
RECURSIVE ResolveTargets(_, _, _)
ResolveTargets(machine_ids, all_machines, i) ==
    IF i > Len(machine_ids) THEN [results |-> <<>>, target_machines |-> <<>>]
    ELSE LET system_id == machine_ids[i]
             found == FindMachine(all_machines, system_id)
             rest == ResolveTargets(machine_ids, all_machines, i + 1)
         IN  IF found # <<>>
             THEN IF found[1].status_name # "Ready"
                  THEN [rest EXCEPT !.results = <<SkippedResult(found[1])>> \o @]
                  ELSE [rest EXCEPT !.target_machines = <<found[1]>> \o @]
             ELSE [rest EXCEPT !.results = <<NotFoundResult(system_id)>> \o @]

\* variant of ApplyFilters: a machine another flow has already sent a deploy
\* call for is reserved and dropped
ApplyFilters_Reserved(target_machines, config) ==
    LET HasTag(m) == AnyTag(config.tags, m)
        InPool(m) == m.pool = config.pool
        Free(m) == \A t \in 1..Len(deploy_calls) :
                       \A k \in 1..Len(deploy_calls[t]) :
                           deploy_calls[t][k].system_id # m.system_id
        byTag == IF config.tags # <<>> THEN Filter(target_machines, HasTag)
                 ELSE target_machines
        byPool == IF config.pool # "" THEN Filter(byTag, InPool) ELSE byTag
        free == Filter(byPool, Free)
    IN  IF config.count # 0 /\ config.count > 0 THEN Take(free, config.count)
        ELSE free

\* 464-475: the execution-time tag, pool and count filters
ApplyFilters(target_machines, config) ==
    LET HasTag(m) == AnyTag(config.tags, m)
        InPool(m) == m.pool = config.pool
        byTag == IF config.tags # <<>> THEN Filter(target_machines, HasTag)
                 ELSE target_machines
        byPool == IF config.pool # "" THEN Filter(byTag, InPool) ELSE byTag
    IN  IF config.count # 0 /\ config.count > 0 THEN Take(byPool, config.count)
        ELSE byPool

\* 472, 487: generate_machine_cloud_init divides the machine's memory by 1024
\* (cloud_init_generator.py:472) and raises TypeError when it is null
RenderRaises(machine) == machine.memory = "null"

\* 492: the rendering get_machine_cloud_init returns for the machine
Rendering(machine, user_config, os_type) ==
    [system_id |-> machine.system_id, tags |-> machine.tag_names,
     os_type |-> os_type, user_config |-> user_config]

\* 494-501: the deploy operation sent for the machine; outcome is the
\* controller's answer, "" while the call is in flight
DeployCall(machine, config) ==
    [system_id |-> machine.system_id,
     op |-> "deploy",
     outcome |-> "",
     distro_series |-> config.distro_series,
     user_data |-> IF config.user_data # ""
                   THEN <<Rendering(machine, config.user_data,
                                    OsType(config.distro_series))>>
                   ELSE <<>>]

\* variant of MarkRunning: the status assignment of 433 is left out
MarkRunning_NoStatus(job, now) == [job EXCEPT !.updated_at = now]

\* 433-434
MarkRunning(job, now) == [job EXCEPT !.status = "running", !.updated_at = now]

\* variant of TerminalStatus: a skipped entry counts like a failed deployment
TerminalStatus_BySkipped(job) ==
    IF job.failed_deployments = 0 /\ \A i \in 1..Len(job.results) : job.results[i].status # "skipped"
    THEN "completed" ELSE "completed_with_errors"

\* 527
TerminalStatus(job) ==
    IF job.failed_deployments = 0 THEN "completed" ELSE "completed_with_errors"

\* variant of MarkCompleted: the status assignment of 527 is left out
MarkCompleted_NoStatus(job, now) ==
    [job EXCEPT !.completed_at = <<now>>, !.updated_at = now]

\* 526-529
MarkCompleted(job, now) ==
    [job EXCEPT !.status = TerminalStatus(job), !.completed_at = <<now>>,
                !.updated_at = now]

\* variant of MarkFailed: the error assignment of 536 is left out
MarkFailed_NoError(job, error, now) ==
    [job EXCEPT !.status = "failed", !.updated_at = now]

\* 533-537
MarkFailed(job, error, now) ==
    [job EXCEPT !.status = "failed", !.error = error, !.updated_at = now]

\* variant of RecordDeployed: the entry is appended, the counter is left
RecordDeployed_NoCount(job, machine, now) ==
    [job EXCEPT !.results = Append(@, DeployedResult(machine, job.config, now))]

\* 503-513: the entry is appended and the counter incremented with no await
\* in between
RecordDeployed(job, machine, now) ==
    [job EXCEPT !.results = Append(@, DeployedResult(machine, job.config, now)),
                !.successful_deployments = @ + 1]

\* variant of RecordFailed: the entry is appended, the counter is left
RecordFailed_NoCount(job, machine, deploy_error) ==
    [job EXCEPT !.results = Append(@, FailedResult(machine, deploy_error))]

\* 515-524
RecordFailed(job, machine, deploy_error) ==
    [job EXCEPT !.results = Append(@, FailedResult(machine, deploy_error)),
                !.failed_deployments = @ + 1]

\* variant of RecordTargets: total_machines counts the dropped targets too
RecordTargets_CountAll(job, results, target_machines) ==
    [job EXCEPT !.results = @ \o results,
                !.total_machines = Len(results) + Len(target_machines),
                !.machines = SystemIds(target_machines)]

\* 477-480
RecordTargets(job, results, target_machines) ==
    [job EXCEPT !.results = @ \o results,
                !.total_machines = Len(target_machines),
                !.machines = SystemIds(target_machines)]

\* variant of RunLoop: a target whose rendering raises is passed over without
\* a failed entry
RECURSIVE RunLoop_PassOver(_, _, _, _)
RunLoop_PassOver(job, target_machines, i, now) ==
    IF i > Len(target_machines)
    THEN [job |-> MarkCompleted(job, now), pc |-> "done", idx |-> i, call |-> <<>>]
    ELSE LET machine == target_machines[i]
         IN  IF job.config.user_data # "" /\ RenderRaises(machine)
             THEN RunLoop_PassOver(job, target_machines, i + 1, now)
             ELSE [job |-> job, pc |-> "deploying", idx |-> i,
                   call |-> <<DeployCall(machine, job.config)>>]

\* 483-529 from the target at position i up to the next await: a target whose
\* rendering raises is recorded as failed and the loop goes on; the loop stops
\* at the deploy call of 501, or ends and the job is marked completed
RECURSIVE RunLoop(_, _, _, _)
RunLoop(job, target_machines, i, now) ==
    IF i > Len(target_machines)
    THEN [job |-> MarkCompleted(job, now), pc |-> "done", idx |-> i, call |-> <<>>]
    ELSE LET machine == target_machines[i]
         IN  IF job.config.user_data # "" /\ RenderRaises(machine)
             THEN RunLoop(RecordFailed(job, machine, "TypeError"),
                          target_machines, i + 1, now)
             ELSE [job |-> job, pc |-> "deploying", idx |-> i,
                   call |-> <<DeployCall(machine, job.config)>>]


\* variant of OnDeployError: the inner try/except of 484/515 is missing, so the
\* exception reaches the handler of 533 and ends the flow
OnDeployError_Abort(job, target_machines, i, deploy_error, now) ==
    [job |-> MarkFailed(job, deploy_error, now), pc |-> "done", idx |-> i,
     call |-> <<>>]

\* 515-524, then the loop goes on with the next target
OnDeployError(job, target_machines, i, deploy_error, now) ==
    RunLoop(RecordFailed(job, target_machines[i], deploy_error),
            target_machines, i + 1, now)

\* variant of OnDeployResult: the completion time is stamped with every
\* deployed machine
OnDeployResult_Stamped(job, target_machines, i, now) ==
    RunLoop([RecordDeployed(job, target_machines[i], now) EXCEPT !.completed_at = <<now>>],
            target_machines, i + 1, now)

\* 503-513, then the loop goes on with the next target
OnDeployResult(job, target_machines, i, now) ==
    RunLoop(RecordDeployed(job, target_machines[i], now),
            target_machines, i + 1, now)

\* the calls of a flow once the call in flight got the answer outcome
Answered(calls, outcome) == [calls EXCEPT ![Len(calls)].outcome = outcome]

\* One step of the flow t after an await returned: the job record, the flow's
\* position and the deploy call it issued, if any
Advance(t, run, target_machines, calls) ==
    /\ provisioning_jobs' = [provisioning_jobs EXCEPT ![tasks[t].job_id] = run.job]
    /\ tasks' = [tasks EXCEPT ![t].pc = run.pc, ![t].idx = run.idx,
                              ![t].fetch = "ok",
                              ![t].target_machines = target_machines]
    /\ deploy_calls' = [deploy_calls EXCEPT ![t] = calls \o run.call]

\* 428-437: the flow starts; it returns when the store has no such job (429),
\* else it marks the job running and asks for the machines
TaskStart ==
    \E t \in 1..Len(tasks) :
        /\ tasks[t].pc = "scheduled"
        /\ IF tasks[t].job_id \in DOMAIN provisioning_jobs
           THEN /\ provisioning_jobs' = [provisioning_jobs EXCEPT
                       ![tasks[t].job_id] = MarkRunning(@, clock)]
                /\ tasks' = [tasks EXCEPT ![t].pc = "fetching"]
           ELSE /\ tasks' = [tasks EXCEPT ![t].pc = "done"]
                /\ UNCHANGED provisioning_jobs
        /\ UNCHANGED <<job_id_counter, requests, deploy_calls, clock, evaluation>>

\* 437-501: the machine list arrives; targets are resolved and filtered, and
\* the loop runs to its first deploy call or to the end
FetchReturn(S) ==
    \E t \in 1..Len(tasks) :
        /\ tasks[t].pc = "fetching"
        /\ \E all_machines \in S :
           LET job == provisioning_jobs[tasks[t].job_id]
               r == ResolveTargets(tasks[t].machine_ids, all_machines, 1)
               target_machines == ApplyFilters(r.target_machines, job.config)
           IN  Advance(t, RunLoop(RecordTargets(job, r.results, target_machines),
                                  target_machines, 1, clock),
                       target_machines, deploy_calls[t])
        /\ UNCHANGED <<job_id_counter, requests, clock, evaluation>>

\* 437, 533-537: the machine list request fails
FetchError ==
    \E t \in 1..Len(tasks) :
        /\ tasks[t].pc = "fetching"
        /\ provisioning_jobs' = [provisioning_jobs EXCEPT
               ![tasks[t].job_id] = MarkFailed(@, "MAAS API Error", clock)]
        /\ tasks' = [tasks EXCEPT ![t].pc = "done", ![t].fetch = "error"]
        /\ UNCHANGED <<job_id_counter, requests, deploy_calls, clock, evaluation>>

\* 501-513, then 483-529: the deploy call returns a result
DeployReturn ==
    \E t \in 1..Len(tasks) :
        /\ tasks[t].pc = "deploying"
        /\ Advance(t, OnDeployResult(provisioning_jobs[tasks[t].job_id],
                                     tasks[t].target_machines, tasks[t].idx, clock),
                   tasks[t].target_machines, Answered(deploy_calls[t], "ok"))
        /\ UNCHANGED <<job_id_counter, requests, clock, evaluation>>

\* 501, 515-524, then 483-529: the deploy call raises
DeployError ==
    \E t \in 1..Len(tasks) :
        /\ tasks[t].pc = "deploying"
        /\ Advance(t, OnDeployError(provisioning_jobs[tasks[t].job_id],
                                    tasks[t].target_machines, tasks[t].idx,
                                    "MAAS API Error", clock),
                   tasks[t].target_machines, Answered(deploy_calls[t], "error"))
        /\ UNCHANGED <<job_id_counter, requests, clock, evaluation>>

-----------------------------------------------------------------------------
(* The rule engine, services/cloud_init_generator.py.                      *)
(*                                                                         *)
(* A text is a sequence of lines and a line is a sequence of tokens: the   *)
(* fixed fragments of the source and the values formatted into them, so    *)
(* that a value is found in a text, or replaced in it, where it occurs as  *)
(* a token.  A startup command is written without its logging tail         *)
(* "2>&1 | tee -a /var/log/...".                                           *)

\* longest tag list of a machine handed to the rule engine
MaxTags == 2
\* most lines of a user snippet
MaxSnippet == 2

\* a command without formatted values
Cmd(text) == <<text>>

\* 13, 197: any(x in os_type.lower() for x in ['rocky', 'rhel', 'centos'])
IsRocky(os_type) == os_type \in {"rocky", "rhel", "centos"}

\* 16-23
rocky_packages ==
    <<"curl", "wget", "git", "htop", "vim", "net-tools", "openssh-server", "sudo",
      "tar", "gzip", "lldpd", "nvme-cli", "strace", "ltrace", "crash", "kexec-tools",
      "ibverbs-utils", "infiniband-diags", "screen", "tmux", "ipmitool", "rdma-core",
      "wireshark-cli", "fio", "smartmontools", "atop">>

\* 25-31
ubuntu_packages ==
    <<"curl", "wget", "git", "htop", "vim", "net-tools", "openssh-server", "lldpd",
      "nvme-cli", "strace", "ltrace", "crash", "kdump-tools", "ibverbs-utils",
      "ibutils", "infiniband-diags", "screen", "tmux", "ipmitool", "rdma-core",
      "tshark", "termshark", "fio", "smartmontools", "iozone3", "atop">>

\* user_credentials is None (<<>>) or one dict; a missing or None entry of the
\* dict is "", and configured is FALSE only when the dict says False
\* 40: the users section is written
HasUsersSection(user_credentials) ==
    /\ user_credentials # <<>>
    /\ user_credentials[1].configured
    /\ user_credentials[1].username # ""
    /\ user_credentials[1].password # ""

\* 68: the user's startup commands are written
HasUserCommands(user_credentials) ==
    /\ user_credentials # <<>>
    /\ user_credentials[1].configured
    /\ user_credentials[1].username # ""

\* 44-60
UserConfig(user_credentials, is_rocky) ==
    [name |-> user_credentials[1].username,
     plain_text_passwd |-> user_credentials[1].password,
     sudo_is_list |-> is_rocky,
     groups |-> IF is_rocky THEN <<"wheel", "docker">> ELSE <<"sudo", "docker">>,
     rocky_settings |-> is_rocky]

\* 72-114: the commands for the user on Rocky; the password is formatted into
\* the commands of 78 and 101
RockyUserCommands(username, password) ==
    <<<<"# CRITICAL: Force ", username, " user creation immediately">>,
      Cmd("echo \"=== EMERGENCY USER CREATION ===\""),
      <<"if ! id ", username, " >/dev/null 2>&1; then">>,
      <<"  echo \"Cloud-init user creation appears to have failed. Creating ",
        username, " user manually NOW...\"">>,
      <<"  useradd -m -s /bin/bash ", username>>,
      <<"  echo \"", username, ":", password, "\" | chpasswd">>,
      <<"  usermod -aG wheel ", username>>,
      <<"  id ", username>>,
      Cmd("  echo \"Emergency user creation completed\""),
      Cmd("else"),
      <<"  echo \"GOOD: ", username, " user exists, skipping emergency creation\"">>,
      Cmd("fi"),
      Cmd("systemctl enable sshd"),
      Cmd("systemctl start sshd"),
      <<"# Ensure wheel group has sudo privileges for ", username, " user">>,
      Cmd("echo \"%wheel ALL=(ALL) NOPASSWD: ALL\" | tee /etc/sudoers.d/wheel"),
      Cmd("chmod 0440 /etc/sudoers.d/wheel"),
      <<"# Enhanced ", username, " user creation for Rocky Linux">>,
      Cmd("echo \"=== User Creation Debug Information ===\""),
      Cmd("echo \"OS Type: Rocky/RHEL/CentOS detected\""),
      Cmd("echo \"Available groups:\""),
      Cmd("getent group wheel docker"),
      <<"echo \"Checking if ", username, " user exists...\"">>,
      <<"if id ", username, " >/dev/null 2>&1; then echo \"GOOD\"; else echo \"WARNING\"; fi">>,
      <<"if ! id ", username, " >/dev/null 2>&1; then">>,
      <<"  echo \"Step 1: Creating ", username, " user with useradd...\"">>,
      <<"  useradd -m -s /bin/bash ", username>>,
      <<"  echo \"Step 2: Setting password for ", username, " user...\"">>,
      <<"  echo \"", username, ":", password, "\" | chpasswd">>,
      <<"  echo \"Step 3: Adding ", username, " to wheel group...\"">>,
      <<"  usermod -aG wheel ", username>>,
      <<"  echo \"Step 4: Adding ", username, " to docker group (if exists)...\"">>,
      <<"  getent group docker >/dev/null && usermod -aG docker ", username>>,
      Cmd("  echo \"Manual user creation completed\""),
      Cmd("fi"),
      <<"# Final verification of ", username, " user">>,
      Cmd("echo \"=== Final User Verification ===\""),
      <<"id ", username>>,
      <<"groups ", username>>,
      <<"getent passwd ", username>>,
      Cmd("echo \"Rocky Linux base configuration completed\"")>>

\* 116-123
UbuntuUserCommands(username) ==
    <<Cmd("systemctl enable ssh"),
      Cmd("systemctl start ssh"),
      <<"# Verify ", username, " user was created with correct groups">>,
      <<"id ", username>>,
      <<"groups ", username>>,
      Cmd("echo \"Ubuntu base configuration completed\"")>>

\* 64-137
user_specific_commands(is_rocky, user_credentials) ==
    IF HasUserCommands(user_credentials)
    THEN IF is_rocky
         THEN RockyUserCommands(user_credentials[1].username,
                                user_credentials[1].password)
         ELSE UbuntuUserCommands(user_credentials[1].username)
    ELSE IF is_rocky
         THEN <<Cmd("systemctl enable sshd"), Cmd("systemctl start sshd"),
                Cmd("echo \"Rocky Linux base configuration completed (no user configured)\"")>>
         ELSE <<Cmd("systemctl enable ssh"), Cmd("systemctl start ssh"),
                Cmd("echo \"Ubuntu base configuration completed (no user configured)\"")>>

\* 160-179
base_commands(is_rocky) ==
    <<Cmd("mkdir -p /var/log"),
      Cmd("touch /var/log/cloud-init-userdata.log /var/log/maas-deployment.log"),
      Cmd("chmod 644 /var/log/cloud-init-userdata.log /var/log/maas-deployment.log"),
      Cmd("echo \"=== MAAS Cloud-Init Deployment Started at $(date) ===\""),
      Cmd("echo \"MAAS deployment started at $(date)\""),
      <<"echo \"Configuring ", IF is_rocky THEN "Rocky Linux" ELSE "Ubuntu", " system...\"">>,
      Cmd("# Enable and configure additional system services"),
      Cmd("systemctl enable lldpd"),
      Cmd("systemctl start lldpd"),
      Cmd("# Configure kdump/kexec if available"),
      Cmd(IF is_rocky THEN "systemctl enable kdump" ELSE "systemctl enable kdump-tools"),
      Cmd("# Enable SMART monitoring"),
      Cmd("systemctl enable smartd"),
      Cmd("systemctl start smartd"),
      Cmd("# Apply sysctl configuration"),
      Cmd("sysctl -p /etc/sysctl.d/99-weka.conf"),
      Cmd("echo \"Weka sysctl configuration applied\""),
      Cmd("echo \"Additional system tools configured\"")>>

\* 9-183
generate_base_cloud_init(os_type, user_credentials) ==
    LET is_rocky == IsRocky(os_type)
    IN  [packages |-> IF is_rocky THEN rocky_packages ELSE ubuntu_packages,
         users |-> IF HasUsersSection(user_credentials)
                   THEN <<UserConfig(user_credentials, is_rocky)>> ELSE <<>>,
         write_files |-> <<[content |-> "# installed from platform cloud-init",
                            path |-> "/etc/sysctl.d/99-weka.conf"]>>,
         runcmd |-> base_commands(is_rocky)
                        \o user_specific_commands(is_rocky, user_credentials)]

\* the tags a machine may carry: one or two per enhancement rule, and a tag
\* no rule knows
EnhTags ==
    <<"high-cpu", "high-memory", "bcm57508", "amd64-arch", "virtual",
      "serial_console", "needs_serial_console_deploy", "nvme_core", "connectx-6",
      "doca-connectx", "intel-nic", "broadcom-nic", "gpu">>

\* word in tag.lower(), for the words of 268, 279, 379 and 398
Mentions(tag, word) ==
    <<tag, word>> \in {<<"connectx-6", "connectx">>, <<"doca-connectx", "connectx">>,
                      <<"doca-connectx", "doca">>, <<"intel-nic", "intel">>,
                      <<"intel-nic", "nic">>, <<"broadcom-nic", "nic">>,
                      <<"broadcom-nic", "broadcom">>}

\* the enhancement rules of 199-409, in the order of their declaration
NumRules == 11

\* variant of RuleFires: the basic bcm57508 rule is skipped when the enhanced
\* Broadcom rule is triggered by another tag
RuleFires_Exclusive(r, tags) ==
    LET Has(word) == \E i \in 1..Len(tags) : Mentions(tags[i], word)
    IN  CASE r = 1 -> InSeq("high-cpu", tags)
          [] r = 2 -> InSeq("high-memory", tags)
          [] r = 3 -> InSeq("bcm57508", tags) /\ ~Has("broadcom")
          [] r = 4 -> InSeq("amd64-arch", tags)
          [] r = 5 -> InSeq("virtual", tags)
          [] r = 6 -> InSeq("serial_console", tags)
                          \/ InSeq("needs_serial_console_deploy", tags)
          [] r = 7 -> InSeq("nvme_core", tags)
          [] r = 8 -> Has("connectx") \/ Has("mellanox")
          [] r = 9 -> Has("doca")
          [] r = 10 -> \E i \in 1..Len(tags) :
                           /\ Mentions(tags[i], "intel")
                           /\ Mentions(tags[i], "nic") \/ Mentions(tags[i], "ethernet")
          [] r = 11 -> InSeq("bcm57508", tags) \/ Has("broadcom")

\* the conditions of 200, 213, 222, 231, 239, 248, 257, 270, 281, 381, 398
RuleFires(r, tags) ==
    LET Has(word) == \E i \in 1..Len(tags) : Mentions(tags[i], word)
    IN  CASE r = 1 -> InSeq("high-cpu", tags)
          [] r = 2 -> InSeq("high-memory", tags)
          [] r = 3 -> InSeq("bcm57508", tags)
          [] r = 4 -> InSeq("amd64-arch", tags)
          [] r = 5 -> InSeq("virtual", tags)
          [] r = 6 -> InSeq("serial_console", tags)
                          \/ InSeq("needs_serial_console_deploy", tags)
          [] r = 7 -> InSeq("nvme_core", tags)
          [] r = 8 -> Has("connectx") \/ Has("mellanox")
          [] r = 9 -> Has("doca")
          [] r = 10 -> \E i \in 1..Len(tags) :
                           /\ Mentions(tags[i], "intel")
                           /\ Mentions(tags[i], "nic") \/ Mentions(tags[i], "ethernet")
          [] r = 11 -> InSeq("bcm57508", tags) \/ Has("broadcom")

\* the packages a rule appends
RulePackages(r, is_rocky) ==
    CASE r = 1 -> IF is_rocky THEN <<"kernel-tools">>
                  ELSE <<"cpufrequtils", "linux-tools-generic">>
      [] r = 3 -> <<"ethtool">>
      [] r = 4 -> <<"amd64-microcode">>
      [] r = 5 -> <<"qemu-guest-agent", "open-vm-tools">>
      [] r = 9 -> IF is_rocky
                  THEN <<"gcc", "kernel-devel", "kernel-headers", "wget", "python3-pip",
                         "curl", "rpm-build">>
                  ELSE <<"build-essential", "linux-headers-generic", "wget",
                         "python3-pip", "curl">>
      [] r = 10 -> IF is_rocky THEN <<"gcc", "kernel-devel", "kernel-headers">>
                   ELSE <<"build-essential", "linux-headers-generic">>
      [] r = 11 -> IF is_rocky THEN <<"ethtool", "gcc", "kernel-devel", "kernel-headers">>
                   ELSE <<"ethtool", "build-essential", "linux-headers-generic">>
      [] OTHER -> <<>>

\* the startup commands a rule appends
RuleRuncmd(r) ==
    CASE r = 1 -> <<Cmd("echo \"=== High-CPU Optimizations ===\""),
                    Cmd("echo \"performance\" | tee /sys/devices/system/cpu/cpu*/cpufreq/scaling_governor"),
                    Cmd("echo \"High-CPU optimizations applied\"")>>
      [] r = 2 -> <<Cmd("echo \"=== High-Memory Optimizations ===\""),
                    Cmd("echo \"vm.swappiness=1\" >> /etc/sysctl.conf"),
                    Cmd("echo \"vm.vfs_cache_pressure=50\" >> /etc/sysctl.conf"),
                    Cmd("echo \"High-memory optimizations applied\"")>>
      [] r = 3 -> <<Cmd("echo \"=== Broadcom BCM57508 Configuration ===\""),
                    Cmd("modprobe bnxt_en"),
                    Cmd("echo \"Broadcom BCM57508 network driver loaded\"")>>
      [] r = 4 -> <<Cmd("echo \"=== AMD64 Architecture Optimizations ===\""),
                    Cmd("echo \"AMD64 microcode updates enabled\"")>>
      [] r = 5 -> <<Cmd("echo \"=== Virtual Machine Configuration ===\""),
                    Cmd("systemctl enable qemu-guest-agent"),
                    Cmd("echo \"Virtual machine tools configured\"")>>
      [] r = 6 -> <<Cmd("echo \"=== Serial Console Configuration ===\""),
                    Cmd("systemctl enable serial-getty@ttyS0.service"),
                    Cmd("systemctl start serial-getty@ttyS0.service"),
                    Cmd("echo \"Serial console configured\"")>>
      [] r = 7 -> <<Cmd("echo \"=== NVME Configuration ===\""),
                    Cmd("echo \"NVME multipath disabled as configured\"")>>
      [] r = 8 -> <<Cmd("echo \"=== ConnectX NIC Driver Loading ===\""),
                    Cmd("modprobe mlx5_core"),
                    Cmd("modprobe mlx5_ib"),
                    Cmd("echo \"ConnectX NIC drivers loaded\"")>>
      [] r = 9 -> <<Cmd("echo \"=== DOCA Installation ===\""),
                    Cmd("chmod +x /tmp/install_doca.sh"),
                    Cmd("/tmp/install_doca.sh")>>
      [] r = 10 -> <<Cmd("echo \"=== Intel NIC Drivers Installation ===\""),
                     Cmd("modprobe e1000e"),
                     Cmd("modprobe igb"),
                     Cmd("modprobe ixgbe"),
                     Cmd("modprobe i40e"),
                     Cmd("modprobe ice"),
                     Cmd("echo \"Intel NIC drivers loaded\"")>>
      [] r = 11 -> <<Cmd("echo \"=== Broadcom NIC Drivers Installation ===\""),
                     Cmd("modprobe bnxt_en"),
                     Cmd("modprobe tg3"),
                     Cmd("echo \"Broadcom NIC drivers loaded\"")>>

\* the files a rule appends
RuleFiles(r) ==
    CASE r = 7 -> <<[content |-> "nvme_core.multipath=N",
                     path |-> "/etc/modprobe.d/nvme.conf"]>>
      [] r = 9 -> <<[content |-> "#!/bin/bash (DOCA installation script)",
                     path |-> "/tmp/install_doca.sh"]>>
      [] OTHER -> <<>>

\* 199-409: the rules from r on, each appending to what the earlier ones left
RECURSIVE ApplyRules(_, _, _, _)
ApplyRules(r, tags, is_rocky, enhancements) ==
    IF r > NumRules THEN enhancements
    ELSE ApplyRules(r + 1, tags, is_rocky,
             IF RuleFires(r, tags)
             THEN [packages |-> enhancements.packages \o RulePackages(r, is_rocky),
                   runcmd |-> enhancements.runcmd \o RuleRuncmd(r),
                   write_files |-> enhancements.write_files \o RuleFiles(r)]
             ELSE enhancements)

\* 186-411
generate_tag_based_enhancements(tags, os_type) ==
    LET none == [packages |-> <<>>, runcmd |-> <<>>, write_files |-> <<>>]
    IN  IF tags = <<>> THEN none ELSE ApplyRules(1, tags, IsRocky(os_type), none)

\* the lines of a user snippet: a list item, a list item that logs, a list
\* item that controls a service, and a line that is no list item
SnippetLines == {Snippet, "- echo done", "- systemctl restart lldpd", "apt-get upgrade"}

\* 438: line.startswith('- ')
IsListItem(line) == line \in {Snippet, "- echo done", "- systemctl restart lldpd"}

\* 439: 'echo' in line, 'systemctl' in line
HasWord(line, word) ==
    <<line, word>> \in {<<"- echo done", "echo">>,
                       <<"- systemctl restart lldpd", "systemctl">>}

\* 444: cmd.replace('- ', '', 1)
ItemText(line) ==
    CASE line = Snippet -> "apt-get update"
      [] line = "- echo done" -> "echo done"
      [] line = "- systemctl restart lldpd" -> "systemctl restart lldpd"

\* 414-449; user_config is the snippet's non-blank lines, stripped (437)
merge_configurations(base_config, enhancements, user_config) ==
    LET Kept(line) == IsListItem(line) /\ ~HasWord(line, "echo")
                          /\ ~HasWord(line, "systemctl")
        user_commands == Filter(user_config, Kept)
    IN  [base_config EXCEPT
            !.packages = @ \o enhancements.packages,
            !.runcmd = @ \o enhancements.runcmd
                         \o (IF user_commands # <<>>
                             THEN <<Cmd("# User-provided commands:")>>
                                  \o [i \in 1..Len(user_commands) |->
                                         Cmd(ItemText(user_commands[i]))]
                             ELSE <<>>),
            !.write_files = @ \o enhancements.write_files]

\* strings that YAML reads as a number, which yaml.dump writes in quotes
YamlNonStr == {"12345"}

\* yaml.dump of a string value
YamlScalar(v) == IF v \in YamlNonStr THEN <<"'", v, "'">> ELSE <<v>>

\* ", ".join(machine_tags) if machine_tags else "none"
RECURSIVE Joined(_)
Joined(names) ==
    IF names = <<>> THEN <<"none">>
    ELSE IF Len(names) = 1 THEN <<names[1]>>
    ELSE <<names[1], ", ">> \o Joined(Tail(names))

\* math.ceil(machine.get("memory", 0) / 1024)
MemoryGB(machine) == CASE machine.memory = "4096" -> "4"

\* machine.get("hostname") or machine.get("fqdn") or machine["system_id"]
DisplayName(machine) ==
    IF machine.hostname # "" THEN machine.hostname ELSE machine.system_id

\* 508: yaml.dump of the users entry
DumpUser(user) ==
    <<Cmd("users:"),
      <<"- name: ">> \o YamlScalar(user.name),
      <<"  ", "plain_text_passwd: ">> \o YamlScalar(user.plain_text_passwd)>>
    \o (IF user.sudo_is_list
        THEN <<Cmd("  sudo:"), Cmd("  - ALL=(ALL) NOPASSWD:ALL")>>
        ELSE <<Cmd("  sudo: ALL=(ALL) NOPASSWD:ALL")>>)
    \o <<Cmd("  shell: /bin/bash"), Cmd("  groups:")>>
    \o [i \in 1..Len(user.groups) |-> <<"  - ", user.groups[i]>>]
    \o <<Cmd("  lock_passwd: false")>>
    \o (IF user.rocky_settings
        THEN <<Cmd("  ssh_authorized_keys: []"), Cmd("  system: false"),
               Cmd("  create_user_group: true")>>
        ELSE <<>>)

\* 508: yaml.dump(final_config, default_flow_style=False, sort_keys=False)
Dump(final_config) ==
    <<Cmd("packages:")>>
    \o [i \in 1..Len(final_config.packages) |-> <<"- ", final_config.packages[i]>>]
    \o <<Cmd("ssh_pwauth: true"), Cmd("disable_root: false")>>
    \o (IF final_config.users # <<>> THEN DumpUser(final_config.users[1]) ELSE <<>>)
    \o <<Cmd("write_files:")>>
    \o [k \in 1..(2 * Len(final_config.write_files)) |->
           IF k % 2 = 1
           THEN <<"- content: ", final_config.write_files[(k + 1) \div 2].content>>
           ELSE <<"  path: ", final_config.write_files[k \div 2].path>>]
    \o <<Cmd("runcmd:")>>
    \o [i \in 1..Len(final_config.runcmd) |-> <<"- ">> \o final_config.runcmd[i]]
    \o <<<<"hostname: ", final_config.hostname>>,
         <<"final_message: ", final_config.final_message>>>>

\* 452-516
generate_machine_cloud_init(machine, user_config, os_type, user_credentials) ==
    LET machine_tags == machine.tag_names
        base_config == generate_base_cloud_init(os_type, user_credentials)
        enhancements == generate_tag_based_enhancements(machine_tags, os_type)
        merged == merge_configurations(base_config, enhancements, user_config)
        machine_specific_cmds ==
            <<Cmd("echo \"=== Machine-Specific Configuration ===\""),
              <<"echo \"Machine-specific deployment for ", DisplayName(machine), "\"">>,
              <<"echo \"System ID: ", machine.system_id, "\"">>,
              Cmd("echo \"Architecture: unknown\""),
              Cmd("echo \"CPU Cores: unknown\""),
              <<"echo \"Memory: ", MemoryGB(machine), " GB\"">>,
              <<"echo \"Machine Tags: ">> \o Joined(machine_tags) \o <<"\"">>>>
        completion ==
            <<Cmd("echo \"=== MAAS Cloud-Init Deployment Completed at $(date) ===\""),
              Cmd("echo \"All user-data logs saved to /var/log/cloud-init-userdata.log\""),
              Cmd("echo \"Final user verification:\""),
              IF merged.users # <<>>
              THEN <<"id ", merged.users[1].name, " || echo \"ERROR: ",
                     merged.users[1].name, " user not created!\"">>
              ELSE Cmd("echo \"No user configured for this deployment\"")>>
        hostname == IF machine.hostname # "" THEN machine.hostname
                    ELSE "maas-" \o machine.system_id
        final_config ==
            [packages |-> merged.packages,
             users |-> merged.users,
             write_files |-> merged.write_files,
             runcmd |-> machine_specific_cmds \o merged.runcmd \o completion,
             hostname |-> hostname,
             final_message |-> "MAAS deployment completed successfully"]
        yaml_header ==
            <<Cmd("#cloud-config"),
              Cmd("# Auto-generated configuration for MAAS deployment"),
              <<"# Machine: ", DisplayName(machine)>>,
              <<"# System ID: ", machine.system_id>>,
              Cmd("# Architecture: unknown"),
              <<"# CPU: unknown cores, Memory: ", MemoryGB(machine), " GB">>,
              <<"# Machine tags: ">> \o Joined(machine_tags),
              Cmd("# Generated at: (now)"),
              Cmd("")>>
    IN  [config |-> yaml_header \o Dump(final_config),
         machine |-> machine,
         tags |-> machine_tags,
         hasEnhancements |-> \/ enhancements.packages # <<>>
                             \/ enhancements.runcmd # <<>>
                             \/ enhancements.write_files # <<>>]

\* the redaction marker as 532 and 566 write it
Hidden == "'[HIDDEN]'"

\* 530-533: str.replace of "plain_text_passwd: " followed by the password
Sanitize(text, password) ==
    [i \in 1..Len(text) |->
        [k \in 1..Len(text[i]) |->
            IF k > 1 /\ text[i][k - 1] = "plain_text_passwd: " /\ text[i][k] = password
            THEN Hidden ELSE text[i][k]]]

\* 548: the tags of all the machines; the order is that of a Python set
AllTagsOf(selected_machines) ==
    LET Carried(tag) == \E i \in 1..Len(selected_machines) :
                            InSeq(tag, selected_machines[i].tag_names)
    IN  Filter(EnhTags, Carried)

\* 551-580: the summary shown for several machines
Summary(selected_machines, user_credentials) ==
    <<Cmd("#cloud-config"),
      Cmd("# Auto-generated configuration for MAAS deployment"),
      Cmd("# Multiple machines"),
      <<"# Machines: ">> \o Joined([i \in 1..Len(selected_machines) |->
                                      DisplayName(selected_machines[i])]),
      <<"# All tags: ">> \o Joined(AllTagsOf(selected_machines)),
      Cmd("# Generated at: (now)"),
      Cmd(""),
      Cmd("# Note: Each machine will receive individualized configuration"),
      Cmd("")>>
    \o (IF user_credentials # <<>> /\ user_credentials[1].configured
        THEN <<Cmd("users:"),
               <<"  - name: ", user_credentials[1].username>>,
               <<"    ", "plain_text_passwd: ", Hidden>>,
               Cmd("    sudo: 'ALL=(ALL) NOPASSWD:ALL'"),
               Cmd("    shell: /bin/bash"),
               Cmd("    groups: [sudo, docker]"),
               Cmd("    lock_passwd: false")>>
        ELSE <<Cmd("# No user configuration - machines will use default system access")>>)
    \o <<Cmd(""),
         Cmd("# Individual machine configurations will be applied during deployment"),
         Cmd("final_message: \"MAAS deployment completed with individualized configurations\"")>>

\* 519-588
generate_cloud_init(selected_machines, user_config, os_type, user_credentials) ==
    LET machine_configs ==
            [i \in 1..Len(selected_machines) |->
                generate_machine_cloud_init(selected_machines[i], user_config, os_type,
                                            user_credentials)]
    IN  IF Len(selected_machines) = 1
        THEN [config |-> machine_configs[1].config,
              displayConfig |->
                  IF user_credentials # <<>> /\ user_credentials[1].password # ""
                  THEN Sanitize(machine_configs[1].config, user_credentials[1].password)
                  ELSE machine_configs[1].config,
              tags |-> machine_configs[1].tags,
              hasEnhancements |-> machine_configs[1].hasEnhancements,
              machineConfigs |-> machine_configs]
        ELSE LET summary_config == Summary(selected_machines, user_credentials)
             IN  [config |-> summary_config,
                  displayConfig |-> summary_config,
                  tags |-> AllTagsOf(selected_machines),
                  hasEnhancements |-> \E i \in 1..Len(machine_configs) :
                                          machine_configs[i].hasEnhancements,
                  machineConfigs |-> machine_configs]

-----------------------------------------------------------------------------
(* Status queries, app.py:823-847.  Neither handler awaits: each reads the *)
(* job store in one step, in whatever state the flows have left it.        *)

\* 826-829
get_provisioning_job(job_id) ==
    IF job_id \in DOMAIN provisioning_jobs
    THEN [status_code |-> 200, job |-> provisioning_jobs[job_id]]
    ELSE [status_code |-> 404, error |-> "Provisioning job not found"]

\* 834: list(provisioning_jobs.values()), the records in insertion order
JobValues ==
    [c \in 1..Cardinality(DOMAIN provisioning_jobs) |->
        provisioning_jobs[CHOOSE id \in DOMAIN provisioning_jobs : id[2] = c]]

\* 841: jobs.sort(key=created_at, reverse=True); the sort is stable
RECURSIVE SortNewestFirst(_)
SortNewestFirst(jobs) ==
    IF jobs = <<>> THEN <<>>
    ELSE LET last == jobs[Len(jobs)]
             front == SortNewestFirst(SubSeq(jobs, 1, Len(jobs) - 1))
             NotOlder(j) == j.created_at >= last.created_at
             Older(j) == j.created_at < last.created_at
         IN  Filter(front, NotOlder) \o <<last>> \o Filter(front, Older)

\* 834-847; a status of "" is no status filter
list_provisioning_jobs(status, limit) ==
    LET Wanted(j) == status = "" \/ j.status = status
    IN  [jobs |-> Take(SortNewestFirst(Filter(JobValues, Wanted)), limit),
         total |-> Cardinality(DOMAIN provisioning_jobs)]

-----------------------------------------------------------------------------
(* Specifications *)

\* the service after start-up: no job, no request, no flow
Started ==
    /\ provisioning_jobs = <<>>
    /\ job_id_counter = 1
    /\ requests = <<>>
    /\ tasks = <<>>
    /\ deploy_calls = <<>>
    /\ clock = 0

Init == Started /\ evaluation = <<>>

\* one request in full detail
Next ==
    \/ SubmitBegin(Requests, MaxRequests)
    \/ SubmitResume(Snapshots)
    \/ SubmitGatewayError
    \/ TaskStart
    \/ FetchReturn(Snapshots)
    \/ FetchError
    \/ DeployReturn
    \/ DeployError

Spec == Init /\ [][Next]_vars

\* several requests and flows interleaved
NextConc ==
    \/ SubmitBegin(ConcRequests, MaxConcRequests)
    \/ SubmitResume(ConcSnapshots)
    \/ SubmitGatewayError
    \/ TaskStart
    \/ FetchReturn(ConcSnapshots)
    \/ FetchError
    \/ DeployReturn
    \/ DeployError

SpecConc == Init /\ [][NextConc]_vars

\* latest second of the service's clock
MaxClock == 1

\* time.time() and datetime.now() advance (772, 778, 434, 528, 536)
Tick ==
    /\ clock < MaxClock
    /\ clock' = clock + 1
    /\ UNCHANGED <<provisioning_jobs, job_id_counter, requests, tasks, deploy_calls,
                   evaluation>>

\* one request has arrived
InitLive ==
    /\ provisioning_jobs = <<>>
    /\ job_id_counter = 1
    /\ requests \in {<<Arrived(req)>> : req \in ConcRequests}
    /\ tasks = <<>>
    /\ deploy_calls = <<>>
    /\ clock = 0
    /\ evaluation = <<>>

\* the request is handled and its job runs while time passes
NextLive ==
    \/ SubmitResume(ConcSnapshots)
    \/ SubmitGatewayError
    \/ TaskStart
    \/ FetchReturn(ConcSnapshots)
    \/ FetchError
    \/ DeployReturn
    \/ DeployError
    \/ Tick

\* the event loop runs a scheduled flow (FastAPI background task, 800), and
\* every call of a flow to the controller returns, with a result or an error
\* (186-192)
Fairness ==
    /\ WF_vars(TaskStart)
    /\ WF_vars(FetchReturn(ConcSnapshots) \/ FetchError)
    /\ WF_vars(DeployReturn \/ DeployError)

SpecLive == InitLive /\ [][NextLive]_vars /\ Fairness

\* one request from its arrival on: the handler's decision and the whole flow
\* of the job it creates, for every request for the default release that
\* names machines by the system ids of the fleet ("m1" is also the hostname
\* of m2)
JobRequests ==
    {r \in Requests :
        r.distro_series = "jammy" /\ Range(r.machines) \subseteq Range(MachineIds)}

\* 612-800, 424-537
InitJob ==
    /\ provisioning_jobs = <<>>
    /\ job_id_counter = 1
    /\ requests \in {<<Arrived(req)>> : req \in JobRequests}
    /\ tasks = <<>>
    /\ deploy_calls = <<>>
    /\ clock = 0
    /\ evaluation = <<>>

NextJob ==
    \/ SubmitResume(Snapshots)
    \/ SubmitGatewayError
    \/ TaskStart
    \/ FetchReturn(Snapshots)
    \/ FetchError
    \/ DeployReturn
    \/ DeployError

SpecJob == InitJob /\ [][NextJob]_vars

-----------------------------------------------------------------------------
(* The decision of the submit handler on one request and one snapshot.     *)
(* The handler's outcome before it creates the job depends on the request  *)
(* and on the snapshot alone, so it is evaluated as a function of the two, *)
(* over more requests and snapshots than the specifications above afford.  *)

\* the controller lists its machines in an order of its own
FleetOrders ==
    {o \in [1..Len(MachineIds) -> Range(MachineIds)] :
        \A i, j \in 1..Len(MachineIds) : o[i] = o[j] => i = j}

RECURSIVE MkOrdered(_, _, _)
MkOrdered(order, st, i) ==
    IF i > Len(order) THEN <<>>
    ELSE LET id == order[i]
         IN  (IF st[id] = "absent" THEN <<>> ELSE <<MachineRecord(id, st[id])>>)
             \o MkOrdered(order, st, i + 1)

OrderedSnapshots ==
    {MkOrdered(o, st, 1) :
        o \in FleetOrders, st \in [Range(MachineIds) -> StatusNames \cup {"absent"}]}

\* requests that select by tags, and requests that name machines
SelectRequests ==
    [machines : {<<>>, <<"m1">>},
     tags : TagLists \cup {<<"ssd">>},
     pool : {"", "default", "lab"},
     count : 0..MaxCount,
     auto_select : BOOLEAN,
     tag_match_mode : {"all", "any"},
     user_data : {""},
     distro_series : {"jammy"}]
    \cup
    [machines : SeqsUpTo(Tokens, MaxList),
     tags : {<<>>, <<"gpu">>},
     pool : {""},
     count : {0},
     auto_select : BOOLEAN,
     tag_match_mode : {"all"},
     user_data : {""},
     distro_series : {"jammy"}]

\* 614-769: the handler up to the creation of the job
Decide(req, all_machines) ==
    IF ValidationError(req) # ""
    THEN [ok |-> FALSE,
          error |-> [status_code |-> 400, error |-> ValidationError(req)]]
    ELSE Select(req, all_machines)

InitSelect ==
    /\ Started
    /\ evaluation \in [req : SelectRequests, all_machines : OrderedSnapshots,
                        out : {<<>>}]

\* the handler runs on the request and the snapshot
EvalSelect ==
    /\ evaluation.out = <<>>
    /\ evaluation' = [evaluation EXCEPT
                          !.out = <<Decide(evaluation.req, evaluation.all_machines)>>]
    /\ UNCHANGED <<provisioning_jobs, job_id_counter, requests, tasks, deploy_calls,
                   clock>>

NextSelect ==
    \/ EvalSelect

SpecSelect == InitSelect /\ [][NextSelect]_vars

-----------------------------------------------------------------------------
(* The rule engine on one input.  Its functions read nothing but their     *)
(* arguments, so each is evaluated on arguments drawn from the sets below. *)

\* the tag lists of at most MaxTags tags
TagSeqs ==
    {LET In(tag) == tag \in S IN Filter(EnhTags, In) :
        S \in {T \in SUBSET Range(EnhTags) : Cardinality(T) <= MaxTags}}

\* tags, then the tags of more that tags lacks
TagUnion(tags, more) == LET New(tag) == ~InSeq(tag, tags) IN tags \o Filter(more, New)

OsTypes == {"ubuntu", "rocky"}

InitEnhance ==
    /\ Started
    /\ evaluation \in [tags : TagSeqs, more_tags : TagSeqs, os_type : OsTypes,
                       out : {<<>>}]

\* generate_tag_based_enhancements runs on either tag list and on their union
EvalEnhance ==
    /\ evaluation.out = <<>>
    /\ evaluation' = [evaluation EXCEPT !.out =
           <<[alone |-> generate_tag_based_enhancements(evaluation.tags,
                                                        evaluation.os_type),
              more |-> generate_tag_based_enhancements(evaluation.more_tags,
                                                       evaluation.os_type),
              union |-> generate_tag_based_enhancements(
                            TagUnion(evaluation.tags, evaluation.more_tags),
                            evaluation.os_type)]>>]
    /\ UNCHANGED <<provisioning_jobs, job_id_counter, requests, tasks, deploy_calls,
                   clock>>

NextEnhance ==
    \/ EvalEnhance

SpecEnhance == InitEnhance /\ [][NextEnhance]_vars

Passwords == {"hunter2", "12345"}

\* no credentials, credentials with or without a username and a password, and
\* credentials marked as not configured
Credentials ==
    {<<>>}
    \cup {<<[configured |-> TRUE, username |-> u, password |-> p]>> :
              u \in {"", "admin"}, p \in Passwords \cup {""}}
    \cup {<<[configured |-> FALSE, username |-> "admin", password |-> "hunter2"]>>}

\* the machine of the fleet, carrying these tags
TaggedMachine(id, tags) == [MachineRecord(id, "Ready") EXCEPT !.tag_names = tags]

\* one machine, or two
RenderMachines ==
    {<<TaggedMachine("m1", tags)>> : tags \in TagSeqs}
    \cup {<<TaggedMachine("m1", tags), TaggedMachine("m2", <<"gpu">>)>> : tags \in TagSeqs}

InitRender ==
    /\ Started
    /\ evaluation \in [selected_machines : RenderMachines,
                       user_config : SeqsUpTo(SnippetLines, MaxSnippet),
                       os_type : OsTypes,
                       user_credentials : Credentials,
                       out : {<<>>}]

\* generate_cloud_init runs on the machines
EvalRender ==
    /\ evaluation.out = <<>>
    /\ evaluation' = [evaluation EXCEPT !.out =
           <<generate_cloud_init(evaluation.selected_machines, evaluation.user_config,
                                 evaluation.os_type, evaluation.user_credentials)>>]
    /\ UNCHANGED <<provisioning_jobs, job_id_counter, requests, tasks, deploy_calls,
                   clock>>

NextRender ==
    \/ EvalRender

SpecRender == InitRender /\ [][NextRender]_vars

-----------------------------------------------------------------------------
(* Properties *)

Terminal == {"completed", "completed_with_errors", "failed"}

JobIds == DOMAIN provisioning_jobs

JobOf(t) == provisioning_jobs[tasks[t].job_id]

IsSkipped(r) == r.status = "skipped"

IsFailed(r) == r.status = "failed"

\* successful + failed + skipped of a job
Accounted(job) ==
    job.successful_deployments + job.failed_deployments + Count(job.results, IsSkipped)

\* number of result entries of the job for the machine
EntriesFor(job, system_id) ==
    LET ForIt(r) == r.machine_id = system_id IN Count(job.results, ForIt)

\* number of deploy calls of flow t for the machine
CallsFor(t, system_id) ==
    LET ForIt(c) == c.system_id = system_id IN Count(deploy_calls[t], ForIt)

\* a is a subsequence of b: a's elements appear in b in the same order
RECURSIVE IsSubseq(_, _)
IsSubseq(a, b) ==
    IF a = <<>> THEN TRUE
    ELSE IF b = <<>> THEN FALSE
    ELSE IF Head(a) = Head(b) THEN IsSubseq(Tail(a), Tail(b))
    ELSE IsSubseq(a, Tail(b))

LegalMove(s, t) ==
    \/ t = s
    \/ s = "pending" /\ t = "running"
    \/ s = "running" /\ t \in Terminal

\* C1: a job is created pending, its status only moves pending -> running ->
\* terminal, and a terminal status is never changed by any step of any flow or
\* request.
C1_StatusLifecycle ==
    [][/\ \A j \in JobIds :
            /\ j \in DOMAIN provisioning_jobs'
            /\ LegalMove(provisioning_jobs[j].status, provisioning_jobs'[j].status)
       /\ \A j \in DOMAIN provisioning_jobs' \ JobIds :
            provisioning_jobs'[j].status = "pending"]_vars

\* C1 witness: one job is terminal while another job's flow is running
C1_Witness ==
    \E j1 \in JobIds, j2 \in JobIds :
        /\ provisioning_jobs[j1].status \in Terminal
        /\ provisioning_jobs[j2].status = "running"

\* C2 (as claimed): a job that finished without a top-level exception is
\* completed_with_errors exactly when one of its result entries is failed.
C2_Claimed ==
    \A j \in JobIds :
        LET job == provisioning_jobs[j]
        IN  job.status \in {"completed", "completed_with_errors"} =>
                (job.status = "completed_with_errors"
                    <=> \E i \in 1..Len(job.results) : IsFailed(job.results[i]))

\* C3 (as claimed): successful + failed + skipped never exceeds total_machines.
C3_Claimed ==
    \A j \in JobIds :
        Accounted(provisioning_jobs[j]) <= provisioning_jobs[j].total_machines

\* C4 (as claimed): at a terminal status successful + failed + skipped equals
\* total_machines.
C4_Claimed ==
    \A j \in JobIds :
        provisioning_jobs[j].status \in Terminal =>
            Accounted(provisioning_jobs[j]) = provisioning_jobs[j].total_machines

\* C5 (as claimed): at completed or completed_with_errors every identifier of
\* the target list handed to the flow has exactly one result entry.
C5_Claimed ==
    \A t \in 1..Len(tasks) :
        JobOf(t).status \in {"completed", "completed_with_errors"} =>
            \A k \in 1..Len(tasks[t].machine_ids) :
                EntriesFor(JobOf(t), tasks[t].machine_ids[k]) = 1

\* C6 (as claimed): a job issues at most one deploy call per machine and
\* records at most one result entry per machine.
C6_Claimed ==
    \A t \in 1..Len(tasks) :
        \A k \in 1..Len(MachineIds) :
            /\ CallsFor(t, MachineIds[k]) <= 1
            /\ EntriesFor(JobOf(t), MachineIds[k]) <= 1

\* C7 (as claimed): the result entries of a job appear in the order of the
\* target list handed to its flow.
C7_Claimed ==
    \A t \in 1..Len(tasks) :
        IsSubseq([i \in 1..Len(JobOf(t).results) |-> JobOf(t).results[i].machine_id],
                 tasks[t].machine_ids)


\* C8: a deploy call that fails, or a rendering that raises, is recorded as a
\* failed result with the error detail for that machine and counted; the job is
\* not aborted: every later target kept by the filters is still attempted, and
\* the job ends completed_with_errors.
C8_FailureDoesNotAbort ==
    \A t \in 1..Len(tasks) :
        LET job == JobOf(t)
            calls == deploy_calls[t]
            targets == tasks[t].target_machines
            pc == tasks[t].pc
            handled == IF pc = "done" THEN Len(targets)
                       ELSE IF pc = "deploying" THEN tasks[t].idx - 1 ELSE 0
            reached == IF pc = "deploying" THEN tasks[t].idx ELSE handled
            Raises(m) == job.config.user_data # "" /\ RenderRaises(m)
            Attempted(m) == ~Raises(m)
            ErrCall(c) == c.outcome = "error"
            ErrEntry(r) == r.status = "failed" /\ "error" \in DOMAIN r
            errors == Count(calls, ErrCall) + Count(Take(targets, handled), Raises)
        IN  errors > 0 =>
              /\ job.status # "failed"
              /\ Count(job.results, ErrEntry) = errors
              /\ job.failed_deployments = errors
              /\ \A k \in 1..Len(calls) :
                    ErrCall(calls[k]) =>
                        \E i \in 1..Len(job.results) :
                            /\ ErrEntry(job.results[i])
                            /\ job.results[i].machine_id = calls[k].system_id
                            /\ job.results[i].error = "MAAS API Error"
              /\ [k \in 1..Len(calls) |-> calls[k].system_id]
                    = SystemIds(Filter(Take(targets, reached), Attempted))
              /\ pc = "done" => job.status = "completed_with_errors"

\* C8 witness: a finished job whose first deploy call failed and whose later
\* deploy call succeeded
C8_Witness ==
    \E t \in 1..Len(tasks) :
        /\ tasks[t].pc = "done"
        /\ JobOf(t).status = "completed_with_errors"
        /\ Len(deploy_calls[t]) >= 2
        /\ deploy_calls[t][1].outcome = "error"
        /\ deploy_calls[t][2].outcome = "ok"

\* C9: when the flow's fetch of the machine list fails, the job is failed with
\* a top-level error, and it has no deploy call and no result entry.
C9_FetchFailureAborts ==
    \A t \in 1..Len(tasks) :
        tasks[t].fetch = "error" =>
            /\ JobOf(t).status = "failed"
            /\ JobOf(t).error # ""
            /\ JobOf(t).results = <<>>
            /\ deploy_calls[t] = <<>>
            /\ tasks[t].pc = "done"

\* C9 witness: a flow whose fetch of the machine list failed
C9_Witness ==
    \E t \in 1..Len(tasks) : tasks[t].fetch = "error" /\ tasks[t].pc = "done"

\* the request was answered with a validation, resolution or
\* insufficient-resources error
Rejected(r) ==
    r.pc = "answered" /\ r.response.status_code \in {400, 409}

\* C10: the step that rejects a submit request changes neither the job store,
\* nor the counter, nor the scheduled flows, nor the deploy calls; and every
\* flow (hence every deploy call) belongs to a job an accepted request created.
C10_RejectedLeavesNoTrace ==
    /\ [][(\E i \in 1..Len(requests') :
              /\ Rejected(requests'[i])
              /\ i > Len(requests) \/ requests[i].pc = "awaiting")
          => UNCHANGED <<provisioning_jobs, job_id_counter, tasks, deploy_calls>>]_vars
    /\ [](\A t \in 1..Len(tasks) :
              \E i \in 1..Len(requests) :
                  /\ requests[i].pc = "answered"
                  /\ requests[i].response.status_code = 200
                  /\ requests[i].response.job_id = tasks[t].job_id)

\* C10 witness: a request was rejected for insufficient resources after
\* another request had created a job
C10_Witness ==
    \E i \in 1..Len(requests), k \in 1..Len(requests) :
        /\ Rejected(requests[i])
        /\ requests[i].response.status_code = 409
        /\ k < i
        /\ requests[k].pc = "answered"
        /\ requests[k].response.status_code = 200

-----------------------------------------------------------------------------
(* Properties of the submit decision (SpecSelect) *)

\* the decision has been taken
Decided == evaluation.out # <<>>

\* the selection rule in the words of the specification: the machine is Ready,
\* in an allowed pool, in the request's pool when one is given, and carries
\* every requested tag (ALL) or at least one of them (ANY)
Eligible(req, m) ==
    /\ m.status_name = "Ready"
    /\ m.pool \in Range(configured_pools)
    /\ req.pool # "" => m.pool = req.pool
    /\ IF req.tag_match_mode = "any"
       THEN Range(req.tags) \cap Range(m.tag_names) # {}
       ELSE Range(req.tags) \subseteq Range(m.tag_names)

\* the identifiers of the eligible machines, in snapshot order
Candidates(req, all_machines) ==
    LET Ok(m) == Eligible(req, m) IN SystemIds(SelectSeq(all_machines, Ok))

AutoCase == Decided /\ ValidationError(evaluation.req) = "" /\ AutoMode(evaluation.req)

ExplicitCase == Decided /\ ValidationError(evaluation.req) = "" /\ ~AutoMode(evaluation.req)

\* C11: an auto-selection over a snapshot that holds at least count eligible
\* machines selects exactly count distinct machines, every one of them eligible.
C11_SelectsCountEligible ==
    LET req == evaluation.req
        all_machines == evaluation.all_machines
    IN  (AutoCase /\ Len(Candidates(req, all_machines)) >= req.count)
        => LET out == evaluation.out[1]
           IN  /\ out.ok
               /\ Len(out.selected_machines) = req.count
               /\ Cardinality(Range(out.selected_machines)) = req.count
               /\ Range(out.selected_machines) \subseteq Range(Candidates(req, all_machines))

\* C11 witness: two machines were selected in ANY mode out of a snapshot of
\* three machines, one of them outside the allowed pools
C11_Witness ==
    /\ AutoCase
    /\ evaluation.out[1].ok
    /\ evaluation.req.count = 2
    /\ evaluation.req.tag_match_mode = "any"
    /\ Len(evaluation.all_machines) = 3
    /\ evaluation.all_machines[1].system_id = "m3"
    /\ evaluation.all_machines[1].status_name = "Ready"

\* C12: an auto-selection over a snapshot that holds fewer than count eligible
\* machines is refused with the insufficient-resources error; the error carries
\* the request's count, the number of eligible machines and their identifiers,
\* and nothing is selected.
C12_InsufficientRefused ==
    LET req == evaluation.req
        all_machines == evaluation.all_machines
    IN  (AutoCase /\ Len(Candidates(req, all_machines)) < req.count)
        => LET out == evaluation.out[1]
           IN  /\ ~out.ok
               /\ "selected_machines" \notin DOMAIN out
               /\ out.error.status_code = 409
               /\ out.error.requested_count = req.count
               /\ out.error.available_count = Len(Candidates(req, all_machines))
               /\ out.error.available_machines = Candidates(req, all_machines)

\* C12 witness: two machines were asked for and one was eligible
C12_Witness ==
    /\ AutoCase
    /\ ~evaluation.out[1].ok
    /\ evaluation.req.count = 2
    /\ Len(Candidates(evaluation.req, evaluation.all_machines)) = 1
    /\ Len(evaluation.all_machines) = 3

\* the decision on the same request in ANY mode
AnyModeOut == Decide([evaluation.req EXCEPT !.tag_match_mode = "any"],
                     evaluation.all_machines)

AllModeCase ==
    /\ AutoCase
    /\ evaluation.req.tag_match_mode = "all"
    /\ evaluation.out[1].ok

\* C13 as claimed: when the ALL-mode and the ANY-mode selection both succeed,
\* every machine the ALL-mode selects is selected by the ANY-mode too.
C13_Claimed ==
    (AllModeCase /\ AnyModeOut.ok)
    => Range(evaluation.out[1].selected_machines)
           \subseteq Range(AnyModeOut.selected_machines)

\* C13 amended: when the ALL-mode selection succeeds, the ANY-mode selection
\* succeeds too, and every machine the ALL-mode selects is an eligible
\* candidate of the ANY-mode (it need not be among the first count of them).
C13_AllWithinAnyCandidates ==
    AllModeCase
    => /\ AnyModeOut.ok
       /\ Range(evaluation.out[1].selected_machines)
              \subseteq Range(Candidates([evaluation.req EXCEPT !.tag_match_mode = "any"],
                                         evaluation.all_machines))

\* C13 witness: the ALL-mode selected a machine that the ANY-mode, which also
\* succeeds, does not select
C13_Witness ==
    /\ AllModeCase
    /\ AnyModeOut.ok
    /\ Range(evaluation.out[1].selected_machines)
           \ Range(AnyModeOut.selected_machines) # {}

\* the token names no machine of the snapshot
Unknown(token, all_machines) ==
    \A i \in 1..Len(all_machines) :
        all_machines[i].system_id # token /\ all_machines[i].hostname # token

\* the machine with this system id is the one the token names: the token is
\* its system id, or it is its hostname and no machine's system id
NamedBy(token, id, all_machines) ==
    \E i \in 1..Len(all_machines) :
        /\ all_machines[i].system_id = id
        /\ IF \E k \in 1..Len(all_machines) : all_machines[k].system_id = token
           THEN id = token
           ELSE all_machines[i].hostname = token

\* C14: an explicit list whose tokens all name a machine resolves to a list of
\* the same length whose i-th element is the system id of the machine the
\* i-th token names.
C14_ResolvesInOrder ==
    LET req == evaluation.req
        all_machines == evaluation.all_machines
    IN  (ExplicitCase /\ \A i \in 1..Len(req.machines) : ~Unknown(req.machines[i], all_machines))
        => LET out == evaluation.out[1]
           IN  /\ out.ok
               /\ Len(out.selected_machines) = Len(req.machines)
               /\ \A i \in 1..Len(req.machines) :
                      NamedBy(req.machines[i], out.selected_machines[i], all_machines)

\* C14 witness: a hostname and a system id, in this order, were resolved to
\* the machine they both name, while another machine's hostname equals the id
C14_Witness ==
    /\ ExplicitCase
    /\ evaluation.out[1].ok
    /\ evaluation.req.machines = <<"h1", "m1">>
    /\ evaluation.out[1].selected_machines = <<"m1", "m1">>
    /\ \E i \in 1..Len(evaluation.all_machines) :
           evaluation.all_machines[i].system_id = "m2"

\* a is before b in Python's order of str
Before(a, b) ==
    \E i, j \in 1..Len(NameOrder) : i < j /\ NameOrder[i] = a /\ NameOrder[j] = b

\* s lists exactly the names of S in ascending order
AscendingListOf(s, S) ==
    /\ Range(s) = S
    /\ \A i, j \in 1..Len(s) : i < j => Before(s[i], s[j])

\* C15: an explicit list with a token that names no machine is refused with
\* one resolution error; the error lists every unresolved token of the list
\* and the known hostnames and system ids in ascending order, and no
\* identifier is returned.
C15_UnresolvedRefused ==
    LET req == evaluation.req
        all_machines == evaluation.all_machines
        Unres(token) == Unknown(token, all_machines)
    IN  (ExplicitCase /\ \E i \in 1..Len(req.machines) : Unres(req.machines[i]))
        => LET out == evaluation.out[1]
           IN  /\ ~out.ok
               /\ "selected_machines" \notin DOMAIN out
               /\ out.error.status_code = 400
               /\ out.error.unresolved = SelectSeq(req.machines, Unres)
               /\ AscendingListOf(out.error.available_hostnames,
                                  KnownHostnames(all_machines))
               /\ AscendingListOf(out.error.available_system_ids,
                                  KnownIds(all_machines))

\* C15 witness: two different tokens of one list were unresolved against a
\* snapshot of two machines listed in descending order of system id
C15_Witness ==
    /\ ExplicitCase
    /\ ~evaluation.out[1].ok
    /\ Len(evaluation.out[1].error.unresolved) = 2
    /\ evaluation.out[1].error.unresolved[1] # evaluation.out[1].error.unresolved[2]
    /\ Len(evaluation.all_machines) = 2
    /\ evaluation.all_machines[1].system_id = "m2"
    /\ evaluation.all_machines[2].system_id = "m1"

-----------------------------------------------------------------------------
(* Properties of the job store under interleaved flows and queries (SpecConc) *)

\* the job records a status query can return in the current state
Observable ==
    {get_provisioning_job(id).job : id \in JobIds}
    \cup UNION {Range(list_provisioning_jobs(st, limit).jobs) :
                    st \in {"", "pending", "running"} \cup Terminal,
                    limit \in 0..MaxConcRequests}

\* number of result entries with outcome deployed
DeployedEntries(job) == LET Dep(r) == r.status = "deployed" IN Count(job.results, Dep)

\* C16: in every state a status query can be served in, every job record it
\* returns has successful_deployments equal to the number of its result entries
\* with outcome deployed.
C16_NoTornRecord ==
    /\ \A id \in JobIds : get_provisioning_job(id).status_code = 200
    /\ \A job \in Observable : job.successful_deployments = DeployedEntries(job)

\* C16 witness: a query is served while a flow is suspended in its second
\* deploy call, the first machine deployed
C16_Witness ==
    \E t \in 1..Len(tasks) :
        /\ tasks[t].pc = "deploying"
        /\ tasks[t].idx = 2
        /\ JobOf(t) \in Observable
        /\ JobOf(t).status = "running"
        /\ JobOf(t).successful_deployments = 1

\* the flows scheduled for a job
FlowsOf(id) == {t \in 1..Len(tasks) : tasks[t].job_id = id}

\* C17: every job has exactly one flow; the step that creates a job schedules
\* one flow, for the identifier just created, and leaves the other records
\* alone; and a step that changes the record of an existing job is a step of
\* that job's flow and of no other flow.
C17_SingleWriter ==
    /\ [](\A id \in JobIds : Cardinality(FlowsOf(id)) = 1)
    /\ [][JobIds' # JobIds
          => \E id \in JobIds' \ JobIds :
                 /\ JobIds' = JobIds \cup {id}
                 /\ tasks' = Append(tasks, NewTask(id, tasks'[Len(tasks')].machine_ids))
                 /\ \A other \in JobIds :
                        provisioning_jobs'[other] = provisioning_jobs[other]]_vars
    /\ [][\A id \in JobIds \cap JobIds' :
              provisioning_jobs'[id] # provisioning_jobs[id]
              => \E t \in FlowsOf(id) :
                     /\ tasks'[t] # tasks[t]
                     /\ \A u \in 1..Len(tasks) : u # t => tasks'[u] = tasks[u]
                     /\ \A other \in JobIds :
                            other # id => provisioning_jobs'[other] = provisioning_jobs[other]]_vars

\* C17 witness: two jobs exist and the flow of each has written its record,
\* the two flows being suspended in a deploy call at the same time
C17_Witness ==
    \E t, u \in 1..Len(tasks) :
        /\ t # u
        /\ tasks[t].job_id # tasks[u].job_id
        /\ tasks[t].pc = "deploying" /\ tasks[u].pc = "deploying"
        /\ JobOf(t).status = "running" /\ JobOf(u).status = "running"
        /\ Len(JobOf(t).results) = 1

-----------------------------------------------------------------------------
(* Properties of the renderings (SpecRender) *)

\* the value occurs in the text
Occurs(text, value) ==
    \E i \in 1..Len(text) : \E k \in 1..Len(text[i]) : text[i][k] = value

\* generate_cloud_init has returned for one machine and a credential that
\* carries a secret
SecretCase ==
    /\ evaluation.out # <<>>
    /\ evaluation.user_credentials # <<>>
    /\ evaluation.user_credentials[1].password # ""

\* C18 as claimed: the display rendering never contains the credential secret,
\* whatever the machines, the OS bucket and the credential.
C18_Claimed ==
    SecretCase
    => ~Occurs(evaluation.out[1].displayConfig, evaluation.user_credentials[1].password)

\* C19 as claimed: for one machine, the display rendering is the deploy
\* rendering line by line, except that every line holding the credential secret
\* shows the redaction marker in its place; with no secret supplied the two
\* renderings are identical.
C19_Claimed ==
    (evaluation.out # <<>> /\ Len(evaluation.selected_machines) = 1)
    => LET deploy == evaluation.out[1].config
           display == evaluation.out[1].displayConfig
       IN  IF SecretCase
           THEN LET secret == evaluation.user_credentials[1].password
                IN  /\ Len(display) = Len(deploy)
                    /\ \A i \in 1..Len(deploy) :
                           IF secret \in Range(deploy[i])
                           THEN secret \notin Range(display[i])
                                    /\ Hidden \in Range(display[i])
                           ELSE display[i] = deploy[i]
           ELSE display = deploy

-----------------------------------------------------------------------------
(* Properties of the enhancement rules (SpecEnhance) *)

\* the entries of one kind that the rules of F append, from rule r on
RECURSIVE Blocks(_, _, _, _)
Blocks(r, F, kind, is_rocky) ==
    IF r > NumRules THEN <<>>
    ELSE (IF r \notin F THEN <<>>
          ELSE CASE kind = "packages" -> RulePackages(r, is_rocky)
                 [] kind = "runcmd" -> RuleRuncmd(r)
                 [] kind = "write_files" -> RuleFiles(r))
         \o Blocks(r + 1, F, kind, is_rocky)

\* C20: the packages, commands and files produced for the union of two tag
\* lists contain, in order, those produced for either list alone; they are
\* the blocks of the rules that fire for either list, each block whole and the
\* blocks in the order of the rules' declaration; and the merge appends them
\* to the base segment, which it leaves as it was.
C20_Additive ==
    evaluation.out # <<>>
    => LET o == evaluation.out[1]
           is_rocky == IsRocky(evaluation.os_type)
           F == {r \in 1..NumRules : \/ RuleFires(r, evaluation.tags)
                                     \/ RuleFires(r, evaluation.more_tags)}
           base == generate_base_cloud_init(evaluation.os_type, <<>>)
           merged == merge_configurations(base, o.union, <<>>)
       IN  /\ \A kind \in {"packages", "runcmd", "write_files"} :
                  /\ IsSubseq(o.alone[kind], o.union[kind])
                  /\ IsSubseq(o.more[kind], o.union[kind])
                  /\ o.union[kind] = Blocks(1, F, kind, is_rocky)
                  /\ merged[kind] = base[kind] \o o.union[kind]

\* C20 witness: two tag lists that trigger different rules and one rule in
\* common (bcm57508 and a Broadcom tag both trigger the last rule), on Rocky
C20_Witness ==
    /\ evaluation.out # <<>>
    /\ evaluation.os_type = "rocky"
    /\ InSeq("bcm57508", evaluation.tags)
    /\ InSeq("high-cpu", evaluation.tags)
    /\ InSeq("broadcom-nic", evaluation.more_tags)
    /\ InSeq("doca-connectx", evaluation.more_tags)
    /\ Len(evaluation.out[1].union.runcmd) > Len(evaluation.out[1].alone.runcmd)
    /\ Len(evaluation.out[1].union.runcmd) > Len(evaluation.out[1].more.runcmd)

\* the flow t got the machine list and kept no target for deployment
NoTarget(t) == tasks[t].fetch = "ok" /\ tasks[t].target_machines = <<>>

\* the entry recorded for a target missing from the snapshot
NotFoundEntry(r) ==
    IsFailed(r) /\ "reason" \in DOMAIN r /\ r.reason = "Machine not found"

\* an entry recorded for a target that was dropped before the deploy loop
Dropped(r) == IsSkipped(r) \/ NotFoundEntry(r)

FailedCalls(t) == LET Refused(c) == c.outcome = "error" IN Count(deploy_calls[t], Refused)

\* the flow t has ended, every machine of its job was Ready and passed the
\* execution-time filters, and a deploy call was issued for each of them
AllTargetsCalled(t) ==
    /\ tasks[t].pc = "done"
    /\ tasks[t].fetch = "ok"
    /\ Len(tasks[t].target_machines) = Len(tasks[t].machine_ids)
    /\ Len(deploy_calls[t]) = Len(tasks[t].target_machines)

\* C22: when the n targets of a job are all Ready and pass the execution-time
\* filters and exactly k of the n deploy calls fail, the job ends with
\* successful_deployments = n - k and failed_deployments = k, with status
\* completed_with_errors when k >= 1 and completed when k = 0.
C22_CountersFollowCalls ==
    \A t \in 1..Len(tasks) :
        AllTargetsCalled(t) =>
            LET n == Len(tasks[t].target_machines)
                k == FailedCalls(t)
            IN  /\ JobOf(t).successful_deployments = n - k
                /\ JobOf(t).failed_deployments = k
                /\ JobOf(t).status = IF k >= 1 THEN "completed_with_errors" ELSE "completed"

\* two Ready targets, one of the two deploy calls failed
C22_Witness ==
    \E t \in 1..Len(tasks) :
        /\ AllTargetsCalled(t)
        /\ Len(tasks[t].target_machines) = 2
        /\ FailedCalls(t) = 1
        /\ JobOf(t).status = "completed_with_errors"
        /\ JobOf(t).successful_deployments = 1
        /\ JobOf(t).failed_deployments = 1

\* C23: a job that finishes without a top-level exception and whose result
\* entries are all deployed or skipped ends with status completed; skipped
\* entries alone never give completed_with_errors.
C23_SkippedIsNotAnError ==
    \A j \in JobIds :
        LET job == provisioning_jobs[j]
        IN  (/\ job.status \in {"completed", "completed_with_errors"}
             /\ \A i \in 1..Len(job.results) : ~IsFailed(job.results[i]))
            => job.status = "completed"

\* a finished job with one skipped and one deployed machine
C23_Witness ==
    \E j \in JobIds :
        LET job == provisioning_jobs[j]
        IN  /\ job.status = "completed"
            /\ Len(job.results) = 2
            /\ \E i \in 1..2 : IsSkipped(job.results[i])
            /\ \E i \in 1..2 : job.results[i].status = "deployed"

PassesJobPredicates(config, m) ==
    /\ config.tags # <<>> =>
           IF config.tag_match_mode = "any"
           THEN Range(config.tags) \cap Range(m.tag_names) # {}
           ELSE Range(config.tags) \subseteq Range(m.tag_names)
    /\ config.pool # "" => m.pool = config.pool

FollowsSnapshot(S, machine_ids, job, target_machines, calls) ==
    /\ \A i \in 1..Len(machine_ids) :
        LET id == machine_ids[i]
            shown == {m \in Range(S) : m.system_id = id}
            Untouched == /\ \A k \in 1..Len(target_machines) : target_machines[k].system_id # id
                         /\ \A k \in 1..Len(calls) : calls[k].system_id # id
        IN  /\ shown = {} =>
                /\ \E k \in 1..Len(job.results) :
                       /\ job.results[k].machine_id = id
                       /\ NotFoundEntry(job.results[k])
                /\ Untouched
            /\ \A m \in shown : m.status_name # "Ready" =>
                /\ \E k \in 1..Len(job.results) :
                       /\ job.results[k].machine_id = id
                       /\ IsSkipped(job.results[k])
                       /\ job.results[k].current = m.status_name
                /\ Untouched
    /\ \A k \in 1..Len(target_machines) :
        target_machines[k] \in Range(S) /\ target_machines[k].status_name = "Ready"

\* C27: a flow issues a deploy call only for a machine its own snapshot shows
\* as Ready; a target missing from the snapshot gets a failed entry 'Machine
\* not found', a target in another status a skipped entry naming that status,
\* and neither is ever deployed by the job.
C27_DeployOnlyReady ==
    [][/\ \A t \in 1..Len(tasks) :
            (tasks[t].pc = "fetching" /\ tasks'[t].fetch = "ok") =>
                \E S \in Snapshots :
                    FollowsSnapshot(S, tasks'[t].machine_ids,
                                    provisioning_jobs'[tasks'[t].job_id],
                                    tasks'[t].target_machines, deploy_calls'[t])
       /\ \A t \in 1..Len(tasks') :
            \A k \in 1..Len(deploy_calls'[t]) :
                /\ \E n \in 1..Len(tasks'[t].target_machines) :
                       tasks'[t].target_machines[n].system_id = deploy_calls'[t][k].system_id
                /\ \A n \in 1..Len(provisioning_jobs'[tasks'[t].job_id].results) :
                       LET r == provisioning_jobs'[tasks'[t].job_id].results[n]
                       IN  r.machine_id = deploy_calls'[t][k].system_id
                           => ~IsSkipped(r) /\ ~NotFoundEntry(r)
      ]_vars

\* a job that skipped one of its two machines and deployed the other
C27_Witness ==
    \E t \in 1..Len(tasks) :
        /\ tasks[t].pc = "done"
        /\ Len(tasks[t].machine_ids) = 2
        /\ Len(deploy_calls[t]) = 1
        /\ deploy_calls[t][1].outcome = "ok"
        /\ \E k \in 1..Len(JobOf(t).results) :
               /\ IsSkipped(JobOf(t).results[k])
               /\ JobOf(t).results[k].machine_id # deploy_calls[t][1].system_id

\* C28: a flow is scheduled for a job that is already in the store with status
\* pending; while the job is pending its flow has made no gateway call; the
\* first step of the flow is the transition to running; and a gateway call of
\* the flow (the machine list request, a deploy call) is in flight only while
\* the status is running.
C28_PendingBeforeAnyCall ==
    [][\A t \in 1..Len(tasks') :
        /\ tasks'[t].job_id \in DOMAIN provisioning_jobs'
        /\ LET after == provisioning_jobs'[tasks'[t].job_id]
           IN  /\ t > Len(tasks) =>
                      after.status = "pending" /\ tasks'[t].pc = "scheduled"
               /\ after.status = "pending" =>
                      /\ tasks'[t].pc = "scheduled"
                      /\ tasks'[t].fetch = ""
                      /\ deploy_calls'[t] = <<>>
               /\ (t <= Len(tasks) /\ tasks[t].pc = "scheduled"
                                   /\ tasks'[t].pc # "scheduled") =>
                      /\ JobOf(t).status = "pending"
                      /\ after.status = "running"
                      /\ tasks'[t].pc = "fetching"
                      /\ deploy_calls'[t] = <<>>
               /\ (t <= Len(tasks) /\ Len(deploy_calls'[t]) > Len(deploy_calls[t])) =>
                      JobOf(t).status = "running" /\ after.status = "running"
               /\ tasks'[t].pc \in {"fetching", "deploying"} => after.status = "running"
      ]_vars

\* one job is still pending, its flow not started, while the flow of another
\* job is suspended in a deploy call
C28_Witness ==
    \E t1, t2 \in 1..Len(tasks) :
        /\ JobOf(t1).status = "pending"
        /\ tasks[t1].pc = "scheduled"
        /\ tasks[t2].pc = "deploying"
        /\ JobOf(t2).status = "running"
        /\ deploy_calls[t2] # <<>>

\* C29: a successful auto-selection is the list of the first count eligible
\* machines of the snapshot, in snapshot order: no eligible machine is passed
\* over for a later one.
C29_FirstCountInOrder ==
    LET req == evaluation.req
        all_machines == evaluation.all_machines
    IN  (AutoCase /\ evaluation.out[1].ok)
        => LET selected == evaluation.out[1].selected_machines
               candidates == Candidates(req, all_machines)
           IN  /\ Len(candidates) >= req.count
               /\ selected = SubSeq(candidates, 1, req.count)
               /\ \A i \in 1..Len(candidates) :
                      i > req.count => \A k \in 1..Len(selected) : selected[k] # candidates[i]

\* one machine was selected out of a snapshot listing two eligible machines,
\* m2 before m1
C29_Witness ==
    /\ AutoCase
    /\ evaluation.out[1].ok
    /\ evaluation.req.count = 1
    /\ Candidates(evaluation.req, evaluation.all_machines) = <<"m2", "m1">>
    /\ evaluation.out[1].selected_machines = <<"m2">>

\* the token is the system id of a machine of the snapshot
IsSystemId(token, all_machines) ==
    \E k \in 1..Len(all_machines) : all_machines[k].system_id = token

\* C30: in the resolution of an explicit list a token that is the system id
\* of a machine resolves to that machine, also when it is the hostname of
\* another machine; a token resolves through a hostname only when no machine
\* of the snapshot has it as its system id.
C30_IdBeforeHostname ==
    LET req == evaluation.req
        all_machines == evaluation.all_machines
    IN  (ExplicitCase /\ evaluation.out[1].ok)
        => LET selected == evaluation.out[1].selected_machines
           IN  \A i \in 1..Len(req.machines) :
                   /\ IsSystemId(req.machines[i], all_machines)
                          => selected[i] = req.machines[i]
                   /\ selected[i] # req.machines[i]
                          => /\ ~IsSystemId(req.machines[i], all_machines)
                             /\ \E k \in 1..Len(all_machines) :
                                    /\ all_machines[k].system_id = selected[i]
                                    /\ all_machines[k].hostname = req.machines[i]

\* the token "m1" is the system id of m1 and the hostname of m2, both in the
\* snapshot, and was resolved to m1
C30_Witness ==
    /\ ExplicitCase
    /\ evaluation.out[1].ok
    /\ evaluation.req.machines = <<"m1">>
    /\ evaluation.out[1].selected_machines = <<"m1">>
    /\ \E i, k \in 1..Len(evaluation.all_machines) :
           /\ evaluation.all_machines[i].system_id = "m1"
           /\ evaluation.all_machines[k].system_id = "m2"
           /\ evaluation.all_machines[k].hostname = "m1"

-----------------------------------------------------------------------------
(* Properties of the merged configuration (SpecRender) *)

\* the lines of the text strictly between the line first and the next line
\* whose first token is the token last
Section(text, first, last) ==
    LET a == CHOOSE i \in 1..Len(text) : text[i] = first
        b == CHOOSE i \in (a + 1)..Len(text) :
                 /\ text[i][1] = last
                 /\ \A k \in (a + 1)..(i - 1) : text[k][1] # last
    IN  SubSeq(text, a + 1, b - 1)

\* the startup commands of a rendering, each without its list marker
StartupCommands(text) ==
    LET lines == Section(text, <<"runcmd:">>, "hostname: ")
    IN  [i \in 1..Len(lines) |-> Tail(lines[i])]

\* the package names of a rendering
PackageNames(text) ==
    LET lines == Section(text, <<"packages:">>, "ssh_pwauth: true")
    IN  [i \in 1..Len(lines) |-> lines[i][2]]

\* a snippet line that is no list item, or that logs or controls a service
Unsafe(line) ==
    line \in {"- echo done", "- systemctl restart lldpd", "apt-get upgrade"}

\* the text of a snippet line, without the list marker if it has one
Stripped(line) ==
    CASE line = "- echo done" -> "echo done"
      [] line = "- systemctl restart lldpd" -> "systemctl restart lldpd"
      [] line = "- apt-get update" -> "apt-get update"
      [] OTHER -> line

\* a comment the merge writes about the user snippet
SnippetComment(cmd) ==
    Len(cmd) >= 1 /\ cmd[1] \in {"# User-provided commands:", "# User provided config: "}

\* C31 as stated: when the user snippet holds a line that is no safe list
\* item, that line is not among the startup commands and exactly one comment
\* line about the snippet is among them.
C31_Claimed ==
    (evaluation.out # <<>> /\ \E i \in 1..Len(evaluation.user_config) :
                                 Unsafe(evaluation.user_config[i]))
    => \A m \in 1..Len(evaluation.out[1].machineConfigs) :
           LET cmds == StartupCommands(evaluation.out[1].machineConfigs[m].config)
           IN  /\ \A i \in 1..Len(evaluation.user_config) :
                      Unsafe(evaluation.user_config[i]) =>
                          \A k \in 1..Len(cmds) :
                              /\ cmds[k] # <<evaluation.user_config[i]>>
                              /\ cmds[k] # <<Stripped(evaluation.user_config[i])>>
               /\ Count(cmds, SnippetComment) = 1

\* C32 as stated: no package name appears twice in the package list of a
\* rendered configuration, for either OS family and every tag list.
C32_Claimed ==
    evaluation.out # <<>>
    => \A m \in 1..Len(evaluation.out[1].machineConfigs) :
           LET names == PackageNames(evaluation.out[1].machineConfigs[m].config)
           IN  \A i, k \in 1..Len(names) : i # k => names[i] # names[k]

-----------------------------------------------------------------------------
(* Properties of concurrent jobs (SpecConc) *)

\* the records of the machines named in ids that S shows as Ready, in the
\* order of ids
RECURSIVE ReadyNamed(_, _)
ReadyNamed(S, ids) ==
    IF ids = <<>> THEN <<>>
    ELSE LET shown == {m \in Range(S) : m.system_id = Head(ids) /\ m.status_name = "Ready"}
         IN  (IF shown = {} THEN <<>> ELSE <<CHOOSE m \in shown : TRUE>>)
             \o ReadyNamed(S, Tail(ids))

\* the targets a flow keeps when it is alone: the machines named in ids that S
\* shows as Ready, carrying one of the job's tags and lying in the job's pool
\* when given, the first count of them when a count is given
KeptAlone(S, ids, config) ==
    LET Passes(m) == /\ config.tags # <<>> => Range(config.tags) \cap Range(m.tag_names) # {}
                     /\ config.pool # "" => m.pool = config.pool
        passing == SelectSeq(ReadyNamed(S, ids), Passes)
    IN  IF config.count > 0 /\ config.count < Len(passing)
        THEN SubSeq(passing, 1, config.count) ELSE passing

\* C33: machines are not reserved across jobs.  What an auto-selection picks
\* and what a flow keeps and deploys is what the request and the fetched
\* snapshot give when the job is alone, whatever other jobs have selected or
\* deployed; two jobs can hence select the same Ready machine and both send a
\* deploy call for it.
C33_NoReservation ==
    [][/\ \A i \in 1..Len(requests) :
            (/\ requests[i].pc = "awaiting"
             /\ requests'[i].pc = "answered"
             /\ AutoMode(requests[i].req)
             /\ requests'[i].response.status_code \in {200, 409}) =>
                \E S \in Snapshots :
                    LET req == requests[i].req
                        candidates == Candidates(req, S)
                    IN  IF Len(candidates) >= req.count
                        THEN /\ requests'[i].response.status_code = 200
                             /\ Len(tasks') = Len(tasks) + 1
                             /\ tasks'[Len(tasks')].machine_ids =
                                    SubSeq(candidates, 1, req.count)
                        ELSE requests'[i].response.status_code = 409
       /\ \A t \in 1..Len(tasks) :
            (tasks[t].pc = "fetching" /\ tasks'[t].fetch = "ok") =>
                \E S \in Snapshots :
                    /\ FollowsSnapshot(S, tasks'[t].machine_ids,
                                       provisioning_jobs'[tasks'[t].job_id],
                                       tasks'[t].target_machines, deploy_calls'[t])
                    /\ tasks'[t].target_machines =
                           KeptAlone(S, tasks[t].machine_ids, JobOf(t).config)
       /\ \A t \in 1..Len(tasks') :
            (tasks'[t].pc = "done" /\ tasks'[t].fetch = "ok"
                 /\ provisioning_jobs'[tasks'[t].job_id].config.user_data = "") =>
                [k \in 1..Len(deploy_calls'[t]) |-> deploy_calls'[t][k].system_id]
                    = [k \in 1..Len(tasks'[t].target_machines) |->
                           tasks'[t].target_machines[k].system_id]
      ]_vars

\* two jobs created by auto-selection have both selected m1, and the deploy
\* calls of both for m1 are in flight at the same time
C33_Witness ==
    \E t, u \in 1..Len(tasks) :
        /\ t # u
        /\ tasks[t].job_id # tasks[u].job_id
        /\ JobOf(t).config.auto_select /\ JobOf(u).config.auto_select
        /\ tasks[t].machine_ids = <<"m1">> /\ tasks[u].machine_ids = <<"m1">>
        /\ tasks[t].pc = "deploying" /\ tasks[u].pc = "deploying"
        /\ deploy_calls[t][Len(deploy_calls[t])].system_id = "m1"
        /\ deploy_calls[u][Len(deploy_calls[u])].system_id = "m1"

-----------------------------------------------------------------------------
(* Progress of a job (SpecLive) *)

\* C34: when every scheduled flow is run and every call to the controller
\* returns, every created job eventually has a terminal status, and the step
\* that gives it stamps the time of that step as the job's update time.
C34_EventuallyTerminal ==
    /\ [](tasks # <<>> => <>(/\ tasks # <<>>
                              /\ \A t \in 1..Len(tasks) :
                                     /\ tasks[t].pc = "done"
                                     /\ JobOf(t).status \in Terminal))
    /\ [][\A j \in JobIds :
              (provisioning_jobs[j].status \notin Terminal
                   /\ provisioning_jobs'[j].status \in Terminal)
              => /\ provisioning_jobs'[j].updated_at = clock
                 /\ provisioning_jobs'[j].updated_at >= provisioning_jobs[j].created_at]_vars

\* a job created in second 0 has ended in second 1 after a deploy call
C34_Witness ==
    \E t \in 1..Len(tasks) :
        /\ tasks[t].pc = "done"
        /\ JobOf(t).status \in Terminal
        /\ JobOf(t).created_at = 0
        /\ JobOf(t).updated_at = 1
        /\ deploy_calls[t] # <<>>

\* the requests answered with a job
AcceptedRequests ==
    {i \in 1..Len(requests) :
        requests[i].pc = "answered" /\ requests[i].response.status_code = 200}

\* C35: job identifiers are unique under every interleaving of submits.  The
\* step that creates a job takes an identifier no job has, stores the record
\* under it, leaves every other record as it was and increments the counter,
\* all in one step; two accepted requests never hold the same identifier.
C35_UniqueJobIds ==
    /\ [](/\ \A i, k \in AcceptedRequests :
                i # k => requests[i].response.job_id # requests[k].response.job_id
          /\ \A i \in AcceptedRequests :
                /\ requests[i].response.job_id \in JobIds
                /\ provisioning_jobs[requests[i].response.job_id].id
                       = requests[i].response.job_id
          /\ Cardinality(JobIds) = Cardinality(AcceptedRequests)
          /\ \A j \in JobIds : j[2] < job_id_counter)
    /\ [][\A i \in AcceptedRequests' \ AcceptedRequests :
              LET id == requests'[i].response.job_id
              IN  /\ id \notin JobIds
                  /\ JobIds' = JobIds \cup {id}
                  /\ id = <<clock, job_id_counter>>
                  /\ job_id_counter' = job_id_counter + 1
                  /\ \A j \in JobIds : provisioning_jobs'[j] = provisioning_jobs[j]]_vars

\* two requests were both answered with a job, the two jobs created in the
\* same second under different identifiers
C35_Witness ==
    \E i, k \in AcceptedRequests :
        /\ i # k
        /\ requests[i].response.job_id[1] = requests[k].response.job_id[1]
        /\ requests[i].response.job_id # requests[k].response.job_id
        /\ Cardinality(JobIds) = 2

-----------------------------------------------------------------------------
(* Properties of the counters and stamps of a job (SpecJob) *)

\* number of deploy calls of flow t the controller has answered
ReturnedCalls(t) == LET Back(c) == c.outcome # "" IN Count(deploy_calls[t], Back)

\* C36 as stated: successful_deployments + failed_deployments never exceeds
\* total_machines and equals the number of deploy calls of the job that have
\* returned; in status completed or completed_with_errors it equals
\* total_machines.
C36_Claimed ==
    \A t \in 1..Len(tasks) :
        LET job == JobOf(t)
            sum == job.successful_deployments + job.failed_deployments
        IN  /\ sum <= job.total_machines
            /\ sum = ReturnedCalls(t)
            /\ job.status \in {"completed", "completed_with_errors"}
                   => sum = job.total_machines

\* number of targets of the job whose rendering raised before the deploy call
RenderFailures(job) ==
    LET Raised(r) == IsFailed(r) /\ "error" \in DOMAIN r /\ r.error = "TypeError"
    IN  Count(job.results, Raised)

\* C36 amended: successful_deployments + failed_deployments never exceeds
\* total_machines and equals the number of deploy calls of the job that have
\* returned plus the number of targets whose rendering raised before the call;
\* successful_deployments is the number of calls that returned a result; in
\* status completed or completed_with_errors the sum equals total_machines.
C36_CountersFollowOutcomes ==
    \A t \in 1..Len(tasks) :
        LET job == JobOf(t)
            sum == job.successful_deployments + job.failed_deployments
        IN  /\ sum <= job.total_machines
            /\ sum = ReturnedCalls(t) + RenderFailures(job)
            /\ job.successful_deployments = ReturnedCalls(t) - FailedCalls(t)
            /\ job.status \in {"completed", "completed_with_errors"}
                   => sum = job.total_machines

\* a finished job of two targets: the rendering of one raised, the deploy call
\* of the other returned
C36_Witness ==
    \E t \in 1..Len(tasks) :
        /\ JobOf(t).status = "completed_with_errors"
        /\ JobOf(t).total_machines = 2
        /\ RenderFailures(JobOf(t)) = 1
        /\ ReturnedCalls(t) = 1
        /\ JobOf(t).successful_deployments = 1
        /\ JobOf(t).failed_deployments = 1

\* C37: a job has a top-level error exactly when its status is failed, and a
\* completion time exactly when its status is completed or
\* completed_with_errors; the step that fails a job leaves its result entries
\* and its counters as they were.
C37_ErrorAndCompletionStamps ==
    /\ [](\A j \in JobIds :
              LET job == provisioning_jobs[j]
              IN  /\ job.error # "" <=> job.status = "failed"
                  /\ job.completed_at # <<>>
                         <=> job.status \in {"completed", "completed_with_errors"})
    /\ [][\A j \in JobIds :
              (provisioning_jobs[j].status # "failed"
                   /\ provisioning_jobs'[j].status = "failed")
              => /\ provisioning_jobs'[j].results = provisioning_jobs[j].results
                 /\ provisioning_jobs'[j].successful_deployments
                        = provisioning_jobs[j].successful_deployments
                 /\ provisioning_jobs'[j].failed_deployments
                        = provisioning_jobs[j].failed_deployments
                 /\ provisioning_jobs'[j].total_machines
                        = provisioning_jobs[j].total_machines]_vars

\* one job has failed and carries an error and no completion time, another has
\* completed with errors and carries a completion time and no error
C37_Witness ==
    \E j1, j2 \in JobIds :
        /\ provisioning_jobs[j1].status = "failed"
        /\ provisioning_jobs[j1].error # ""
        /\ provisioning_jobs[j1].completed_at = <<>>
        /\ provisioning_jobs[j2].status = "completed_with_errors"
        /\ provisioning_jobs[j2].completed_at # <<>>
        /\ provisioning_jobs[j2].error = ""

\* the request that was answered with the job of flow t
RequestOf(t) ==
    requests[CHOOSE i \in 1..Len(requests) :
                 /\ requests[i].pc = "answered"
                 /\ requests[i].response.status_code = 200
                 /\ requests[i].response.job_id = tasks[t].job_id]

-----------------------------------------------------------------------------
(* Properties of the pools of the deployed machines (SpecJob) *)

\* the machine a deploy call of task t was issued for, as the flow's own
\* snapshot lists it (441-443)
CalledMachine(t, call) == FindMachine(tasks[t].target_machines, call.system_id)[1]

\* C39 as stated: every machine that receives a deploy call from any job
\* belongs to the configured allowed pools (the single pool "default" when
\* POOLS is not configured), whether the request listed its machines or had
\* them selected.
C39_Claimed ==
    \A t \in 1..Len(tasks) :
        \A k \in 1..Len(deploy_calls[t]) :
            InSeq(CalledMachine(t, deploy_calls[t][k]).pool, configured_pools)

====
